---- MODULE Spec2Model ----
(***************************************************************************)
(* PBSM: a distributed shared memory at variable granularity.              *)
(*                                                                         *)
(* The model follows include/policy.hpp, src/policy.cpp,                   *)
(* include/communication_handler.hpp, include/shared.hpp, include/pbsm.hpp *)
(* and apps/test.cpp.  Every node runs one application thread and, for     *)
(* each remote node, one receiver thread (Policy::receive_messages).       *)
(* One shared<int> variable `a` is declared on every node.                 *)
(*                                                                         *)
(* Granularity.  A section of code that holds policy_data_.mutex_ (or      *)
(* Policy::mutex_) from its beginning to its end is one action.  A         *)
(* condition_variable::wait splits its caller in two: the part before the  *)
(* wait and the part after the wake-up, which needs the mutex again.       *)
(* Code that runs outside any lock is an action of its own (the data_      *)
(* accesses of shared<T>, the acknowledgement sent by the                  *)
(* MSG_INVALIDATE_COPY handler, the slave's way from send to wait).        *)
(*                                                                         *)
(* condition_variable::wait returns after a notify_all issued while the    *)
(* thread waits.  It may also return spuriously, and no wait of the code   *)
(* is guarded by a predicate or a loop: for the barrier waits that is      *)
(* SpuriousBarrierWakeup, which only SpuriousBarrierSpec takes.  Spec,     *)
(* FairSpec, BarrierSpec and TestSpec are the runs of a platform whose     *)
(* waits never return spuriously: what fails there fails on every          *)
(* platform.  send()/recv() on a connection are reliable and FIFO.         *)
(***************************************************************************)
EXTENDS Integers, Sequences, FiniteSets, TLC

\* ------------------------------------------------------------------ bounds

\* Number of lines of /etc/pbsm/hosts.conf (number_of_nodes_) in the
\* specifications that do not fix it themselves.
NumNodes == 2

\* The node ids the actions range over: a specification has at most MaxNodes nodes.
MaxNodes == 3

\* Values of the shared<int> are kept in 0..MaxVal.
MaxVal == 3

\* A connection holds at most MaxChan messages that were sent and not yet
\* received.
MaxChan == 4

\* Each node enters each barrier site at most MaxRounds times.
MaxRounds == 1

\* K of the alternating-increment program (10 in apps/test.cpp).
TargetK == 2

\* Rounds of the endless loop of apps/test-barrier.cpp that are followed.
MaxLoopRounds == 2

\* Messages in flight beyond which scenario S5 sends no redirected request again.
MaxFlight == 5

\* ------------------------------------------------------- program constants

\* enum class state (policy.hpp)
OWNER_NO_SHARED == "OWNER_NO_SHARED"
OWNER_SHARED == "OWNER_SHARED"
REMOTE_OWNER_CACHED == "REMOTE_OWNER_CACHED"
REMOTE_OWNER_NO_CACHED == "REMOTE_OWNER_NO_CACHED"

OwnerStates == {OWNER_NO_SHARED, OWNER_SHARED}
RemoteStates == {REMOTE_OWNER_CACHED, REMOTE_OWNER_NO_CACHED}

\* enum class msg_type_t (messages.hpp)
MSG_REQUEST_OWNERSHIP == "MSG_REQUEST_OWNERSHIP"
MSG_GRANT_OWNERSHIP == "MSG_GRANT_OWNERSHIP"
MSG_SET_NEW_OWNER == "MSG_SET_NEW_OWNER"
MSG_ASK_CURRENT_VALUE == "MSG_ASK_CURRENT_VALUE"
MSG_SET_NEW_VALUE == "MSG_SET_NEW_VALUE"
MSG_BARRIER_BLOCK == "MSG_BARRIER_BLOCK"
MSG_BARRIER_UNBLOCK == "MSG_BARRIER_UNBLOCK"
MSG_INVALIDATE_COPY == "MSG_INVALIDATE_COPY"
MSG_INVALIDATE_COPY_ACK == "MSG_INVALIDATE_COPY_ACK"

\* The id of the shared variable and of the two barrier sites of apps/test.cpp
\* (HASH of the source location; any three different numbers).
VarA == "a"
Barrier1 == "barrier@23"
Barrier2 == "barrier@40"
BarrierIds == {Barrier1, Barrier2}

\* The id of the barrier site of apps/test-barrier.cpp, and all the sites.
BarrierLoop == "barrier@16"
AllBarrierIds == BarrierIds \cup {BarrierLoop}

\* A barrier id that is not there (the application thread is in no barrier).
Null == "nullptr"

\* An unsigned long that was never written: var_data comes from `new var_data`,
\* which leaves remote_owner_ and counter_ indeterminate, and msg_t from a
\* declaration without initializer.  A read of it gives any value.
Uninit == -1

\* A semaphore* that is nullptr is << >>, one that points to a semaphore is
\* <<counter_>>; a std::mutex that no thread holds is << >>.
NullElem == << >>
Unlocked == << >>

\* ---------------------------------------------------------------- state

VARIABLES
    number_of_nodes_,   \* CommunicationHandler::number_of_nodes_
    dictionary_,        \* [node -> BOOLEAN]: dictionary_[VarA] != nullptr
    state_,             \* [node -> state]: policy_data_.state_
    remote_owner_,      \* [node -> node or Uninit]: policy_data_.remote_owner_
    counter_,           \* [node -> Int]: waiting_invalidate_copies_.counter_
    data_,              \* [node -> value]: shared<int>::data_
    v_mutex,            \* [node -> Unlocked or <<n, m>>]: holder of policy_data_.mutex_
                        \*   when a thread holds it across actions
    chan,               \* [sender -> [receiver -> Seq(msg_t)]]: sent, not yet received
    pc,                 \* [node -> position of the application thread]
    bar,                \* [node -> barrier id the application thread is in, or Null]
    rpc,                \* [node -> [remote -> position of the receiver thread]]
    master_waiting_barrier_grants_, \* [node -> [barrier id -> NullElem or <<counter_>>]]
    ideal,              \* history: the value a single copy of `a` would hold
    benter,             \* history: [node -> [barrier id -> number of entries]]
    bret,               \* history: [node -> [barrier id -> number of returns]]
    tpc,                \* [node -> position in main() of apps/test.cpp]
    rd,                 \* [node -> value last read by main() of apps/test.cpp]
    incs                \* history: number of a++ performed by apps/test.cpp

vars == <<number_of_nodes_, dictionary_, state_, remote_owner_, counter_, data_,
          v_mutex, chan, pc, bar, rpc, master_waiting_barrier_grants_, ideal,
          benter, bret, tpc, rd, incs>>

coh_vars == <<dictionary_, state_, remote_owner_, counter_, data_, v_mutex>>
bar_vars == <<bar, master_waiting_barrier_grants_, benter, bret>>
test_vars == <<tpc, rd, incs>>

Nodes == 0 .. (number_of_nodes_ - 1)
NodeIds == 0 .. (MaxNodes - 1)
Values == 0 .. MaxVal

\* msg_t (messages.hpp); bytes is the value sent after a MSG_SET_NEW_VALUE header.
msg_t(type, id, node, bytes) == [type |-> type, id |-> id, node |-> node, bytes |-> bytes]

\* ---------------------------------------------------------- transport

\* CommunicationHandler::send_to: nothing is sent to the node itself.
send_to(ch, from, m, to) ==
    IF to = from THEN ch ELSE [ch EXCEPT ![from][to] = Append(@, m)]

\* CommunicationHandler::send_to_all: one send to every node but the sender.
send_to_all(ch, from, m) ==
    [ch EXCEPT ![from] = [j \in Nodes |-> IF j # from THEN Append(@[j], m) ELSE @[j]]]

\* The connections from `from` to every node of `dests` can take one more message.
Room(from, dests) == \A j \in dests \ {from} : Len(chan[from][j]) < MaxChan

\* The values a read of remote_owner_ can give (indeterminate when never written).
RemoteOwnerRead(n) == IF remote_owner_[n] = Uninit THEN Nodes ELSE {remote_owner_[n]}

\* The values a read of waiting_invalidate_copies_.counter_ can give.
CounterRead(n) == IF counter_[n] = Uninit THEN Uninit .. number_of_nodes_ ELSE {counter_[n]}

\* --------------------------------------------------------- wait / notify

\* condition_variable::notify_all on the condition variable whose waiters are at
\* position `waiting`: a thread that waits there becomes runnable at `woken`.
notify_all(p, n, waiting, woken) ==
    IF p[n] = waiting THEN [p EXCEPT ![n] = woken] ELSE p

\* policy_data_.mutex_ were no thread to wait for it.
MutexFree_not_taken(n) == TRUE

\* policy_data_.mutex_ of node n can be taken.
MutexFree(n) == v_mutex[n] = Unlocked

\* Policy::mutex_ of node n can be taken: the slave's application thread holds it
\* from before its send of MSG_BARRIER_BLOCK until it waits.
PolicyMutexFree(n) == pc[n] # "sb_sent"

\* atomic_ulong::operator--: the counter is an integer modulo 2^64, held as the
\* representative nearest to 0 (ULONG_MAX is -1).
Decrement(c) == c - 1

\* counter_ > 0 on an unsigned long.
Positive(c) == c # 0

\* ------------------------------------------------- hooks of the coherence engine

\* Policy::requestCurrentValue: MSG_ASK_CURRENT_VALUE to remote_owner_.
requestCurrentValue(ch, n, owner) ==
    send_to(ch, n, msg_t(MSG_ASK_CURRENT_VALUE, VarA, n, Uninit), owner)

\* Policy::send_request_ownership: MSG_REQUEST_OWNERSHIP through send_to_all.
send_request_ownership(ch, n) ==
    send_to_all(ch, n, msg_t(MSG_REQUEST_OWNERSHIP, VarA, n, Uninit))

\* before_local_read were it to refresh the value in REMOTE_OWNER_CACHED too.
before_local_read_refresh_cached(n) ==
    /\ UNCHANGED <<state_, remote_owner_, counter_>>
    /\ IF ~dictionary_[n]
       THEN /\ pc' = [pc EXCEPT ![n] = "r_ret"]
            /\ UNCHANGED chan
       ELSE /\ MutexFree(n)
            /\ IF state_[n] \in RemoteStates
               THEN \E owner \in RemoteOwnerRead(n) :
                      /\ Room(n, {owner})
                      /\ chan' = requestCurrentValue(chan, n, owner)
                      /\ pc' = [pc EXCEPT ![n] = "wait_value"]
               ELSE /\ pc' = [pc EXCEPT ![n] = "r_ret"]
                    /\ UNCHANGED chan

\* Policy::before_local_read up to its return or its wait.
before_local_read(n) ==
    /\ UNCHANGED <<state_, remote_owner_, counter_>>
    /\ IF ~dictionary_[n]
       THEN /\ pc' = [pc EXCEPT ![n] = "r_ret"]
            /\ UNCHANGED chan
       ELSE /\ MutexFree(n)
            /\ IF state_[n] = REMOTE_OWNER_NO_CACHED
               THEN \E owner \in RemoteOwnerRead(n) :
                      /\ Room(n, {owner})
                      /\ chan' = requestCurrentValue(chan, n, owner)
                      /\ pc' = [pc EXCEPT ![n] = "wait_value"]
               ELSE /\ pc' = [pc EXCEPT ![n] = "r_ret"]
                    /\ UNCHANGED chan

\* Policy::before_local_read after wait_value_updated_.wait(lock).
ReadWake(n) ==
    /\ n \in Nodes
    /\ pc[n] = "woken_value"
    /\ MutexFree(n)
    /\ state_' = [state_ EXCEPT ![n] = REMOTE_OWNER_CACHED]
    /\ pc' = [pc EXCEPT ![n] = "r_ret"]
    /\ UNCHANGED <<number_of_nodes_, dictionary_, remote_owner_, counter_, data_,
                   v_mutex, chan, rpc, ideal>>
    /\ UNCHANGED bar_vars
    /\ UNCHANGED test_vars

\* Policy::before_local_write up to its return or its wait.
before_local_write(n) ==
    /\ UNCHANGED <<state_, remote_owner_>>
    /\ IF ~dictionary_[n]
       THEN /\ pc' = [pc EXCEPT ![n] = "w_ret"]
            /\ UNCHANGED <<chan, counter_>>
       ELSE /\ MutexFree(n)
            /\ IF state_[n] \in RemoteStates
               THEN /\ Room(n, Nodes)
                    /\ chan' = send_request_ownership(chan, n)
                    /\ pc' = [pc EXCEPT ![n] = "wait_grant"]
                    /\ UNCHANGED counter_
               ELSE IF state_[n] = OWNER_SHARED
               THEN /\ Room(n, Nodes)
                    /\ chan' = send_to_all(chan, n, msg_t(MSG_INVALIDATE_COPY, VarA, n, Uninit))
                    /\ counter_' = [counter_ EXCEPT ![n] = number_of_nodes_ - 1]
                    /\ pc' = [pc EXCEPT ![n] = "wait_inval"]
               ELSE /\ pc' = [pc EXCEPT ![n] = "w_ret"]
                    /\ UNCHANGED <<chan, counter_>>

\* before_local_write were it to leave state_ alone once woken.
WriteWake_no_owner(n) ==
    /\ n \in Nodes
    /\ pc[n] \in {"woken_grant", "woken_inval"}
    /\ MutexFree(n)
    /\ pc' = [pc EXCEPT ![n] = "w_ret"]
    /\ UNCHANGED <<number_of_nodes_, dictionary_, state_, remote_owner_, counter_, data_,
                   v_mutex, chan, rpc, ideal>>
    /\ UNCHANGED bar_vars
    /\ UNCHANGED test_vars

\* Policy::before_local_write after waiting_ownership_grant_.wait(lock) or
\* waiting_invalidate_copies_.wait_condition_.wait(lock).
WriteWake(n) ==
    /\ n \in Nodes
    /\ pc[n] \in {"woken_grant", "woken_inval"}
    /\ MutexFree(n)
    /\ state_' = [state_ EXCEPT ![n] = OWNER_NO_SHARED]
    /\ pc' = [pc EXCEPT ![n] = "w_ret"]
    /\ UNCHANGED <<number_of_nodes_, dictionary_, remote_owner_, counter_, data_,
                   v_mutex, chan, rpc, ideal>>
    /\ UNCHANGED bar_vars
    /\ UNCHANGED test_vars

\* ------------------------------------------------ the application thread

\* What a step of the application thread inside shared<int> leaves alone.
AppFrame ==
    /\ UNCHANGED <<number_of_nodes_, dictionary_, v_mutex, rpc>>
    /\ UNCHANGED bar_vars

\* A read operator of shared<int> (operator T, operator!=, operator%) calls
\* Policy::before_local_read.
ReadCall(n) ==
    /\ n \in Nodes
    /\ pc[n] = "idle"
    /\ tpc[n] = "free"
    /\ before_local_read(n)
    /\ AppFrame
    /\ UNCHANGED <<data_, ideal>>
    /\ UNCHANGED test_vars

\* ... and reads data_ after the hook has returned.
ReadReturn(n) ==
    /\ n \in Nodes
    /\ pc[n] = "r_ret"
    /\ tpc[n] = "free"
    /\ pc' = [pc EXCEPT ![n] = "idle"]
    /\ AppFrame
    /\ UNCHANGED <<state_, remote_owner_, counter_, data_, chan, ideal>>
    /\ UNCHANGED test_vars

\* shared<int>::operator=(T) and operator++ call Policy::before_local_write.
WriteCall(n) ==
    /\ n \in Nodes
    /\ pc[n] = "idle"
    /\ tpc[n] = "free"
    /\ before_local_write(n)
    /\ AppFrame
    /\ UNCHANGED <<data_, ideal>>
    /\ UNCHANGED test_vars

\* shared<int>::operator=(T): data_ = other, after the hook has returned.
Assign(n, other) ==
    /\ n \in Nodes
    /\ pc[n] = "w_ret"
    /\ tpc[n] = "free"
    /\ data_' = [data_ EXCEPT ![n] = other]
    /\ ideal' = other
    /\ pc' = [pc EXCEPT ![n] = "idle"]
    /\ AppFrame
    /\ UNCHANGED <<state_, remote_owner_, counter_, chan>>
    /\ UNCHANGED test_vars

\* shared<int>::operator++: data_++, after the hook has returned.
Increment(n) ==
    /\ n \in Nodes
    /\ pc[n] = "w_ret"
    /\ tpc[n] = "free"
    /\ data_[n] < MaxVal
    /\ ideal < MaxVal
    /\ data_' = [data_ EXCEPT ![n] = @ + 1]
    /\ ideal' = ideal + 1
    /\ pc' = [pc EXCEPT ![n] = "idle"]
    /\ AppFrame
    /\ UNCHANGED <<state_, remote_owner_, counter_, chan>>
    /\ UNCHANGED test_vars

\* ------------------------------------ the receiver threads (receive_messages)

\* The receiver thread of node n for remote node m has received, through
\* recv_from, a header of the given type and is at the top of its loop.
Received(n, m, type) ==
    /\ n \in Nodes /\ m \in Nodes /\ n # m
    /\ rpc[n][m] = "recv"
    /\ chan[m][n] # << >>
    /\ Head(chan[m][n]).type = type

\* The connections once the head of the connection from m to n has been received.
Taken(n, m) == [chan EXCEPT ![m][n] = Tail(@)]

\* What a handler of a coherence message leaves alone.
HandlerFrame ==
    /\ UNCHANGED <<number_of_nodes_, dictionary_, ideal>>
    /\ UNCHANGED bar_vars
    /\ UNCHANGED test_vars

\* case MSG_REQUEST_OWNERSHIP
HandleRequestOwnership(n, m) ==
    /\ Received(n, m, MSG_REQUEST_OWNERSHIP)
    /\ LET msg == Head(chan[m][n]) IN
       IF ~dictionary_[n]
       THEN /\ chan' = Taken(n, m)
            /\ UNCHANGED <<state_, remote_owner_>>
       ELSE /\ MutexFree(n)
            /\ Room(n, {msg.node})
            /\ IF state_[n] \in OwnerStates
               THEN /\ state_' = [state_ EXCEPT ![n] = REMOTE_OWNER_NO_CACHED]
                    /\ remote_owner_' = [remote_owner_ EXCEPT ![n] = msg.node]
                    /\ chan' = send_to(Taken(n, m), n,
                                       msg_t(MSG_GRANT_OWNERSHIP, msg.id, n, Uninit), msg.node)
               ELSE /\ \E owner \in RemoteOwnerRead(n) :
                          chan' = send_to(Taken(n, m), n,
                                          msg_t(MSG_SET_NEW_OWNER, msg.id, owner, Uninit), msg.node)
                    /\ UNCHANGED <<state_, remote_owner_>>
    /\ UNCHANGED <<counter_, data_, v_mutex, pc, rpc>>
    /\ HandlerFrame

\* case MSG_GRANT_OWNERSHIP
HandleGrantOwnership(n, m) ==
    /\ Received(n, m, MSG_GRANT_OWNERSHIP)
    /\ chan' = Taken(n, m)
    /\ IF ~dictionary_[n]
       THEN UNCHANGED pc
       ELSE /\ MutexFree(n)
            /\ pc' = notify_all(pc, n, "wait_grant", "woken_grant")
    /\ UNCHANGED <<state_, remote_owner_, counter_, data_, v_mutex, rpc>>
    /\ HandlerFrame

\* case MSG_ASK_CURRENT_VALUE were a node that is not the owner to answer with its
\* own copy of the value instead of redirecting.
HandleAskCurrentValue_no_redirect(n, m) ==
    /\ Received(n, m, MSG_ASK_CURRENT_VALUE)
    /\ LET msg == Head(chan[m][n]) IN
       IF ~dictionary_[n]
       THEN /\ chan' = Taken(n, m)
            /\ UNCHANGED state_
       ELSE /\ MutexFree(n)
            /\ Room(n, {msg.node})
            /\ state_' = [state_ EXCEPT ![n] = IF @ \in RemoteStates THEN @ ELSE OWNER_SHARED]
            /\ chan' = send_to(Taken(n, m), n,
                               msg_t(MSG_SET_NEW_VALUE, msg.id, Uninit, data_[n]), msg.node)
    /\ UNCHANGED <<remote_owner_, counter_, data_, v_mutex, pc, rpc>>
    /\ HandlerFrame

\* case MSG_ASK_CURRENT_VALUE
HandleAskCurrentValue(n, m) ==
    /\ Received(n, m, MSG_ASK_CURRENT_VALUE)
    /\ LET msg == Head(chan[m][n]) IN
       IF ~dictionary_[n]
       THEN /\ chan' = Taken(n, m)
            /\ UNCHANGED state_
       ELSE /\ MutexFree(n)
            /\ Room(n, {msg.node})
            /\ IF state_[n] \in RemoteStates
               THEN /\ \E owner \in RemoteOwnerRead(n) :
                          chan' = send_to(Taken(n, m), n,
                                          msg_t(MSG_SET_NEW_OWNER, msg.id, owner, Uninit), msg.node)
                    /\ UNCHANGED state_
               ELSE /\ state_' = [state_ EXCEPT ![n] = OWNER_SHARED]
                    /\ chan' = send_to(Taken(n, m), n,
                                       msg_t(MSG_SET_NEW_VALUE, msg.id, Uninit, data_[n]), msg.node)
    /\ UNCHANGED <<remote_owner_, counter_, data_, v_mutex, pc, rpc>>
    /\ HandlerFrame

\* case MSG_SET_NEW_VALUE: the value is received right after the header, then
\* set_value and after_remote_write.
HandleSetNewValue(n, m) ==
    /\ Received(n, m, MSG_SET_NEW_VALUE)
    /\ LET msg == Head(chan[m][n]) IN
       IF ~dictionary_[n]
       THEN UNCHANGED <<data_, pc>>
       ELSE /\ MutexFree(n)
            /\ data_' = [data_ EXCEPT ![n] = msg.bytes]
            /\ pc' = notify_all(pc, n, "wait_value", "woken_value")
    /\ chan' = Taken(n, m)
    /\ UNCHANGED <<state_, remote_owner_, counter_, v_mutex, rpc>>
    /\ HandlerFrame

\* Policy::change_owner once it has the mutex.
change_owner(n, node) ==
    /\ state_' = [state_ EXCEPT ![n] = REMOTE_OWNER_NO_CACHED]
    /\ remote_owner_' = [remote_owner_ EXCEPT ![n] = node]

\* case MSG_SET_NEW_OWNER: the handler locks policy_data_.mutex_ and calls
\* change_owner, which locks the same std::mutex again in the same thread.  That
\* is undefined behaviour: the thread blocks for ever with the mutex held, or
\* the second lock is granted and the handler goes on to send_request_ownership.
HandleSetNewOwner(n, m) ==
    /\ Received(n, m, MSG_SET_NEW_OWNER)
    /\ LET msg == Head(chan[m][n]) IN
       IF ~dictionary_[n]
       THEN /\ chan' = Taken(n, m)
            /\ UNCHANGED <<state_, remote_owner_, v_mutex, rpc>>
       ELSE /\ MutexFree(n)
            /\ \/ /\ v_mutex' = [v_mutex EXCEPT ![n] = <<n, m>>]
                  /\ rpc' = [rpc EXCEPT ![n][m] = "hung"]
                  /\ chan' = Taken(n, m)
                  /\ UNCHANGED <<state_, remote_owner_>>
               \/ /\ Room(n, Nodes)
                  /\ change_owner(n, msg.node)
                  /\ chan' = send_request_ownership(Taken(n, m), n)
                  /\ UNCHANGED <<v_mutex, rpc>>
    /\ UNCHANGED <<counter_, data_, pc>>
    /\ HandlerFrame

\* case MSG_INVALIDATE_COPY were the copy acknowledged and not invalidated.
HandleInvalidateCopy_no_invalidate(n, m) ==
    /\ Received(n, m, MSG_INVALIDATE_COPY)
    /\ IF ~dictionary_[n] THEN TRUE ELSE MutexFree(n)
    /\ chan' = Taken(n, m)
    /\ rpc' = [rpc EXCEPT ![n][m] = "ack"]
    /\ UNCHANGED <<state_, remote_owner_, counter_, data_, v_mutex, pc>>
    /\ HandlerFrame

\* case MSG_INVALIDATE_COPY, the part under policy_data_.mutex_.
HandleInvalidateCopy(n, m) ==
    /\ Received(n, m, MSG_INVALIDATE_COPY)
    /\ IF ~dictionary_[n]
       THEN UNCHANGED state_
       ELSE /\ MutexFree(n)
            /\ state_' = [state_ EXCEPT ![n] = REMOTE_OWNER_NO_CACHED]
    /\ chan' = Taken(n, m)
    /\ rpc' = [rpc EXCEPT ![n][m] = "ack"]
    /\ UNCHANGED <<remote_owner_, counter_, data_, v_mutex, pc>>
    /\ HandlerFrame

\* case MSG_INVALIDATE_COPY, the MSG_INVALIDATE_COPY_ACK sent after the mutex
\* was released (msg.data.node is the sender m).
SendInvalidateCopyAck(n, m) ==
    /\ n \in Nodes /\ m \in Nodes /\ n # m
    /\ rpc[n][m] = "ack"
    /\ Room(n, {m})
    /\ chan' = send_to(chan, n, msg_t(MSG_INVALIDATE_COPY_ACK, VarA, n, Uninit), m)
    /\ rpc' = [rpc EXCEPT ![n][m] = "recv"]
    /\ UNCHANGED <<state_, remote_owner_, counter_, data_, v_mutex, pc>>
    /\ HandlerFrame

\* case MSG_INVALIDATE_COPY_ACK
HandleInvalidateCopyAck(n, m) ==
    /\ Received(n, m, MSG_INVALIDATE_COPY_ACK)
    /\ chan' = Taken(n, m)
    /\ IF ~dictionary_[n]
       THEN UNCHANGED <<counter_, pc>>
       ELSE /\ MutexFree(n)
            /\ \E c \in CounterRead(n) :
                  /\ counter_' = [counter_ EXCEPT ![n] = Decrement(c)]
                  /\ pc' = IF Decrement(c) = 0
                           THEN notify_all(pc, n, "wait_inval", "woken_inval")
                           ELSE pc
    /\ UNCHANGED <<state_, remote_owner_, data_, v_mutex, rpc>>
    /\ HandlerFrame

\* ------------------------------------------------------------- barriers

\* Policy::thread_wait_master_barrier up to its return or its wait.
thread_wait_master_barrier(n, s) ==
    LET elem == master_waiting_barrier_grants_[n][s]
        c == Decrement(IF elem = NullElem THEN number_of_nodes_ ELSE elem[1])
    IN  /\ PolicyMutexFree(n)
        /\ IF Positive(c)
           THEN /\ master_waiting_barrier_grants_' =
                       [master_waiting_barrier_grants_ EXCEPT ![n][s] = <<c>>]
                /\ pc' = [pc EXCEPT ![n] = "mb_wait"]
                /\ bar' = [bar EXCEPT ![n] = s]
                /\ UNCHANGED <<chan, bret>>
           ELSE /\ Room(n, Nodes)
                /\ master_waiting_barrier_grants_' =
                       [master_waiting_barrier_grants_ EXCEPT ![n][s] = NullElem]
                /\ chan' = send_to_all(chan, n, msg_t(MSG_BARRIER_UNBLOCK, s, Uninit, Uninit))
                /\ pc' = [pc EXCEPT ![n] = "b_ret"]
                /\ bret' = [bret EXCEPT ![n][s] = @ + 1]
                /\ UNCHANGED bar

\* Policy::thread_wait_slave_barrier up to its send; Policy::mutex_ stays locked.
thread_wait_slave_barrier(n, s) ==
    /\ PolicyMutexFree(n)
    /\ Room(n, {0})
    /\ chan' = send_to(chan, n, msg_t(MSG_BARRIER_BLOCK, s, Uninit, Uninit), 0)
    /\ pc' = [pc EXCEPT ![n] = "sb_sent"]
    /\ bar' = [bar EXCEPT ![n] = s]
    /\ UNCHANGED <<master_waiting_barrier_grants_, bret>>

\* Policy::thread_wait_barrier
thread_wait_barrier(n, s) ==
    /\ benter[n][s] < MaxRounds
    /\ benter' = [benter EXCEPT ![n][s] = @ + 1]
    /\ IF n = 0 THEN thread_wait_master_barrier(n, s) ELSE thread_wait_slave_barrier(n, s)

\* What a step inside a barrier leaves alone.
BarrierFrame ==
    /\ UNCHANGED <<number_of_nodes_, rpc, ideal>>
    /\ UNCHANGED coh_vars
    /\ UNCHANGED test_vars

\* PBSM_BARRIER() in an application that is free to call it.
BarrierCall(n, s) ==
    /\ n \in Nodes
    /\ pc[n] = "idle"
    /\ tpc[n] = "free"
    /\ thread_wait_barrier(n, s)
    /\ BarrierFrame

\* Policy::thread_wait_master_barrier after elem->wait_condition_.wait(lock).
MasterBarrierWake(n) ==
    /\ n \in Nodes
    /\ pc[n] = "mb_woken"
    /\ PolicyMutexFree(n)
    /\ Room(n, Nodes)
    /\ master_waiting_barrier_grants_' =
           [master_waiting_barrier_grants_ EXCEPT ![n][bar[n]] = NullElem]
    /\ chan' = send_to_all(chan, n, msg_t(MSG_BARRIER_UNBLOCK, bar[n], Uninit, Uninit))
    /\ pc' = [pc EXCEPT ![n] = "b_ret"]
    /\ bret' = [bret EXCEPT ![n][bar[n]] = @ + 1]
    /\ UNCHANGED <<bar, benter>>
    /\ BarrierFrame

\* Policy::thread_wait_slave_barrier from its send to slave_wait_barrier_.wait(lock).
SlaveBarrierWait(n) ==
    /\ n \in Nodes
    /\ pc[n] = "sb_sent"
    /\ pc' = [pc EXCEPT ![n] = "sb_wait"]
    /\ UNCHANGED chan
    /\ UNCHANGED bar_vars
    /\ BarrierFrame

\* Policy::thread_wait_slave_barrier after slave_wait_barrier_.wait(lock).
SlaveBarrierWake(n) ==
    /\ n \in Nodes
    /\ pc[n] = "sb_woken"
    /\ pc' = [pc EXCEPT ![n] = "b_ret"]
    /\ bret' = [bret EXCEPT ![n][bar[n]] = @ + 1]
    /\ UNCHANGED <<chan, bar, master_waiting_barrier_grants_, benter>>
    /\ BarrierFrame

\* wait(lock) in thread_wait_master_barrier and thread_wait_slave_barrier
\* returns without a notify_all (a spurious wake-up).
SpuriousBarrierWakeup(n) ==
    /\ n \in Nodes
    /\ pc[n] \in {"mb_wait", "sb_wait"}
    /\ pc' = [pc EXCEPT ![n] = IF @ = "mb_wait" THEN "mb_woken" ELSE "sb_woken"]
    /\ UNCHANGED chan
    /\ UNCHANGED bar_vars
    /\ BarrierFrame

\* The statement after PBSM_BARRIER() in an application that is free to call it.
BarrierReturn(n) ==
    /\ n \in Nodes
    /\ pc[n] = "b_ret"
    /\ tpc[n] = "free"
    /\ pc' = [pc EXCEPT ![n] = "idle"]
    /\ bar' = [bar EXCEPT ![n] = Null]
    /\ UNCHANGED <<chan, master_waiting_barrier_grants_, benter, bret>>
    /\ BarrierFrame

\* case MSG_BARRIER_BLOCK
HandleBarrierBlock(n, m) ==
    /\ Received(n, m, MSG_BARRIER_BLOCK)
    /\ PolicyMutexFree(n)
    /\ LET msg == Head(chan[m][n])
           elem == master_waiting_barrier_grants_[n][msg.id]
           c == Decrement(IF elem = NullElem THEN number_of_nodes_ ELSE elem[1])
       IN  /\ master_waiting_barrier_grants_' =
                  [master_waiting_barrier_grants_ EXCEPT ![n][msg.id] = <<c>>]
           /\ pc' = IF c = 0 /\ bar[n] = msg.id
                    THEN notify_all(pc, n, "mb_wait", "mb_woken")
                    ELSE pc
    /\ chan' = Taken(n, m)
    /\ UNCHANGED <<bar, benter, bret>>
    /\ BarrierFrame

\* case MSG_BARRIER_UNBLOCK
HandleBarrierUnblock(n, m) ==
    /\ Received(n, m, MSG_BARRIER_UNBLOCK)
    /\ pc' = notify_all(pc, n, "sb_wait", "sb_woken")
    /\ chan' = Taken(n, m)
    /\ UNCHANGED bar_vars
    /\ BarrierFrame

\* ------------------------------------------ main() of apps/test-barrier.cpp

\* for(;;) PBSM_BARRIER(): the call of one more round.
LoopBarrierCall(n) ==
    /\ n \in Nodes
    /\ tpc[n] = "L16"
    /\ pc[n] = "idle"
    /\ benter[n][BarrierLoop] < MaxLoopRounds
    /\ benter' = [benter EXCEPT ![n][BarrierLoop] = @ + 1]
    /\ IF n = 0 THEN thread_wait_master_barrier(n, BarrierLoop)
                ELSE thread_wait_slave_barrier(n, BarrierLoop)
    /\ BarrierFrame

\* for(;;) PBSM_BARRIER(): the return of a round, back to the top of the loop.
LoopBarrierReturn(n) ==
    /\ n \in Nodes
    /\ tpc[n] = "L16"
    /\ pc[n] = "b_ret"
    /\ pc' = [pc EXCEPT ![n] = "idle"]
    /\ bar' = [bar EXCEPT ![n] = Null]
    /\ UNCHANGED <<chan, master_waiting_barrier_grants_, benter, bret>>
    /\ BarrierFrame

\* ------------------------------------------------- main() of apps/test.cpp
\* tpc is the line of main() the application thread is at; DEBUG(...) is taken
\* not to evaluate its argument (logger.hpp is not part of the sources).

\* The barrier site at a line of main().
BarrierSite(line) == IF line = "L23" THEN Barrier1 ELSE Barrier2

\* What a step of main() between its barriers leaves alone.
TestFrame ==
    /\ UNCHANGED <<number_of_nodes_, dictionary_, v_mutex, rpc>>
    /\ UNCHANGED bar_vars

\* PBSM_BARRIER() at line 23 and at line 40.
TestBarrierCall(n) ==
    /\ n \in Nodes
    /\ tpc[n] \in {"L23", "L40"}
    /\ pc[n] = "idle"
    /\ thread_wait_barrier(n, BarrierSite(tpc[n]))
    /\ BarrierFrame

\* The return of PBSM_BARRIER(): on to `while (a != 10)`, or to the end of main().
TestBarrierReturn(n) ==
    /\ n \in Nodes
    /\ tpc[n] \in {"L23", "L40"}
    /\ pc[n] = "b_ret"
    /\ pc' = [pc EXCEPT ![n] = "idle"]
    /\ bar' = [bar EXCEPT ![n] = Null]
    /\ tpc' = [tpc EXCEPT ![n] = IF @ = "L23" THEN "L25" ELSE "done"]
    /\ UNCHANGED <<chan, master_waiting_barrier_grants_, benter, bret, rd, incs>>
    /\ UNCHANGED <<number_of_nodes_, rpc, ideal>>
    /\ UNCHANGED coh_vars

\* operator!= of line 25 and operator% of line 26 (master) or 30 (slave) call
\* Policy::before_local_read.
TestReadCall(n) ==
    /\ n \in Nodes
    /\ tpc[n] \in {"L25", "L26", "L30"}
    /\ pc[n] = "idle"
    /\ before_local_read(n)
    /\ TestFrame
    /\ UNCHANGED <<data_, ideal>>
    /\ UNCHANGED test_vars

\* while (a != 10): data_ != K once before_local_read has returned.  On the
\* master `pbsm_tid == 0` leads to a%2 of line 26, on a slave the && of line 26
\* stops at pbsm_tid and line 30 evaluates a%2.
TestWhile(n) ==
    /\ n \in Nodes
    /\ tpc[n] = "L25"
    /\ pc[n] = "r_ret"
    /\ rd' = [rd EXCEPT ![n] = data_[n]]
    /\ tpc' = [tpc EXCEPT ![n] = IF data_[n] # TargetK
                                 THEN (IF n = 0 THEN "L26" ELSE "L30")
                                 ELSE "L40"]
    /\ pc' = [pc EXCEPT ![n] = "idle"]
    /\ TestFrame
    /\ UNCHANGED <<state_, remote_owner_, counter_, data_, chan, ideal, incs>>

\* a%2 == 0 (master, line 26) or a%2 == 1 (slave, line 30): on to a++ or back to
\* the while.
TestIf(n) ==
    /\ n \in Nodes
    /\ tpc[n] \in {"L26", "L30"}
    /\ pc[n] = "r_ret"
    /\ rd' = [rd EXCEPT ![n] = data_[n]]
    /\ tpc' = [tpc EXCEPT ![n] = IF @ = "L26"
                                 THEN (IF data_[n] % 2 = 0 THEN "L29" ELSE "L25")
                                 ELSE (IF data_[n] % 2 = 1 THEN "L33" ELSE "L25")]
    /\ pc' = [pc EXCEPT ![n] = "idle"]
    /\ TestFrame
    /\ UNCHANGED <<state_, remote_owner_, counter_, data_, chan, ideal, incs>>

\* a++ of line 29 (master) or 33 (slave) calls Policy::before_local_write.
TestWriteCall(n) ==
    /\ n \in Nodes
    /\ tpc[n] \in {"L29", "L33"}
    /\ pc[n] = "idle"
    /\ before_local_write(n)
    /\ TestFrame
    /\ UNCHANGED <<data_, ideal>>
    /\ UNCHANGED test_vars

\* a++: data_++ once before_local_write has returned, then back to the while.
TestIncrement(n) ==
    /\ n \in Nodes
    /\ tpc[n] \in {"L29", "L33"}
    /\ pc[n] = "w_ret"
    /\ data_[n] < MaxVal
    /\ data_' = [data_ EXCEPT ![n] = @ + 1]
    /\ ideal' = ideal + 1
    /\ incs' = incs + 1
    /\ tpc' = [tpc EXCEPT ![n] = "L25"]
    /\ pc' = [pc EXCEPT ![n] = "idle"]
    /\ UNCHANGED rd
    /\ TestFrame
    /\ UNCHANGED <<state_, remote_owner_, counter_, chan>>

\* ------------------------------------------------------------ start-up

\* at_variable_creation were a slave to start without a cached copy.
at_variable_creation_no_cached(n) ==
    IF n = 0
    THEN [state |-> OWNER_SHARED, remote_owner |-> Uninit]
    ELSE [state |-> REMOTE_OWNER_NO_CACHED, remote_owner |-> 0]

\* Policy::at_variable_creation for `shared<int> a (DEF, 0)` declared after
\* pbsm_init, as in apps/test.cpp: the state and remote_owner_ of node n.
at_variable_creation(n) ==
    IF n = 0
    THEN [state |-> OWNER_SHARED, remote_owner |-> Uninit]
    ELSE [state |-> REMOTE_OWNER_CACHED, remote_owner |-> 0]

\* The nodes after pbsm_init (start_receiving included) and the declaration of
\* `a` on each of them; nodes is the number of lines of hosts.conf.
Started(nodes) ==
    /\ number_of_nodes_ = nodes
    /\ dictionary_ = [n \in 0 .. nodes - 1 |-> TRUE]
    /\ state_ = [n \in 0 .. nodes - 1 |-> at_variable_creation(n).state]
    /\ remote_owner_ = [n \in 0 .. nodes - 1 |-> at_variable_creation(n).remote_owner]
    /\ counter_ = [n \in 0 .. nodes - 1 |-> Uninit]
    /\ data_ = [n \in 0 .. nodes - 1 |-> 0]
    /\ v_mutex = [n \in 0 .. nodes - 1 |-> Unlocked]
    /\ chan = [i \in 0 .. nodes - 1 |-> [j \in 0 .. nodes - 1 |-> << >>]]
    /\ pc = [n \in 0 .. nodes - 1 |-> "idle"]
    /\ bar = [n \in 0 .. nodes - 1 |-> Null]
    /\ rpc = [n \in 0 .. nodes - 1 |-> [m \in 0 .. nodes - 1 |-> "recv"]]
    /\ master_waiting_barrier_grants_ =
           [n \in 0 .. nodes - 1 |-> [s \in AllBarrierIds |-> NullElem]]
    /\ ideal = 0
    /\ benter = [n \in 0 .. nodes - 1 |-> [s \in AllBarrierIds |-> 0]]
    /\ bret = [n \in 0 .. nodes - 1 |-> [s \in AllBarrierIds |-> 0]]
    /\ rd = [n \in 0 .. nodes - 1 |-> 0]
    /\ incs = 0

\* An application that calls the operators of `a` and PBSM_BARRIER() freely.
Init ==
    /\ Started(NumNodes)
    /\ tpc = [n \in 0 .. NumNodes - 1 |-> "free"]

\* The steps of the receiver threads on coherence messages.
CoherenceReceive ==
    \E n \in NodeIds : \E m \in NodeIds :
        \/ HandleRequestOwnership(n, m)
        \/ HandleGrantOwnership(n, m)
        \/ HandleSetNewOwner(n, m)
        \/ HandleAskCurrentValue(n, m)
        \/ HandleSetNewValue(n, m)
        \/ HandleInvalidateCopy(n, m)
        \/ SendInvalidateCopyAck(n, m)
        \/ HandleInvalidateCopyAck(n, m)

\* The steps of the receiver threads on barrier messages.
BarrierReceive ==
    \E n \in NodeIds : \E m \in NodeIds :
        \/ HandleBarrierBlock(n, m)
        \/ HandleBarrierUnblock(n, m)

\* The steps of an application thread that is inside a hook of the coherence engine.
CoherenceWake == \E n \in NodeIds : ReadWake(n) \/ WriteWake(n)

\* The steps of an application thread that is inside thread_wait_barrier.
BarrierWake ==
    \E n \in NodeIds : MasterBarrierWake(n) \/ SlaveBarrierWait(n) \/ SlaveBarrierWake(n)

\* The calls of an application that uses `a` freely.
CoherenceApp ==
    \E n \in NodeIds :
        \/ ReadCall(n)
        \/ ReadReturn(n)
        \/ WriteCall(n)
        \/ \E other \in Values : Assign(n, other)
        \/ Increment(n)

\* The barrier calls of a free application, at the first barrier site.
BarrierApp == \E n \in NodeIds : BarrierCall(n, Barrier1) \/ BarrierReturn(n)

Next ==
    \/ CoherenceApp
    \/ CoherenceWake
    \/ CoherenceReceive
    \/ BarrierApp
    \/ BarrierWake
    \/ BarrierReceive

Spec == Init /\ [][Next]_vars

\* An application that calls the operators of `a` freely and no barrier.
NextCoherence ==
    \/ CoherenceApp
    \/ CoherenceWake
    \/ CoherenceReceive

\* The steps of the receiver thread of node n for remote node m.
ReceiverThread(n, m) ==
    \/ HandleRequestOwnership(n, m)
    \/ HandleGrantOwnership(n, m)
    \/ HandleSetNewOwner(n, m)
    \/ HandleAskCurrentValue(n, m)
    \/ HandleSetNewValue(n, m)
    \/ HandleInvalidateCopy(n, m)
    \/ SendInvalidateCopyAck(n, m)
    \/ HandleInvalidateCopyAck(n, m)
    \/ HandleBarrierBlock(n, m)
    \/ HandleBarrierUnblock(n, m)

\* The steps of the application thread of node n other than a new call of a free
\* application: it leaves its waits once notified, and runs after a hook returned.
ApplicationThread(n) ==
    \/ ReadWake(n)
    \/ WriteWake(n)
    \/ ReadReturn(n)
    \/ \E other \in Values : Assign(n, other)
    \/ Increment(n)
    \/ MasterBarrierWake(n)
    \/ SlaveBarrierWait(n)
    \/ SlaveBarrierWake(n)
    \/ BarrierReturn(n)

\* Every thread that can run does run (the scheduler starves no thread).
Fairness ==
    /\ \A n \in NodeIds : WF_vars(ApplicationThread(n))
    /\ \A n \in NodeIds : \A m \in NodeIds : WF_vars(ReceiverThread(n, m))

FairSpec == Init /\ [][NextCoherence]_vars /\ Fairness

\* An application that calls PBSM_BARRIER() at either site freely, and nothing else.
BarrierInit ==
    /\ Started(MaxNodes)
    /\ tpc = [n \in 0 .. MaxNodes - 1 |-> "free"]

\* The barrier calls of a free application, at either site.
BarrierAnyApp ==
    \E n \in NodeIds : (\E s \in BarrierIds : BarrierCall(n, s)) \/ BarrierReturn(n)

NextBarrier ==
    \/ BarrierAnyApp
    \/ BarrierWake
    \/ BarrierReceive

BarrierSpec == BarrierInit /\ [][NextBarrier]_vars /\ Fairness

\* BarrierSpec on a platform whose condition variables wake spuriously.
NextSpuriousBarrier ==
    \/ NextBarrier
    \/ \E n \in NodeIds : SpuriousBarrierWakeup(n)

SpuriousBarrierSpec == BarrierInit /\ [][NextSpuriousBarrier]_vars

\* main() of apps/test-barrier.cpp on every node, at its loop.
LoopInit ==
    /\ Started(MaxNodes)
    /\ tpc = [n \in 0 .. MaxNodes - 1 |-> "L16"]

\* The steps of main() of apps/test-barrier.cpp on node n.
LoopMain(n) == LoopBarrierCall(n) \/ LoopBarrierReturn(n)

NextLoop ==
    \/ \E n \in NodeIds : LoopMain(n)
    \/ BarrierWake
    \/ BarrierReceive

\* The scheduler starves neither main() nor a thread of the run-time.
LoopFairness ==
    /\ Fairness
    /\ \A n \in NodeIds : WF_vars(LoopMain(n))

LoopSpec == LoopInit /\ [][NextLoop]_vars /\ LoopFairness

\* main() of apps/test.cpp on two nodes, from its first PBSM_BARRIER().
TestInit ==
    /\ Started(2)
    /\ tpc = [n \in 0 .. 1 |-> "L23"]

\* The steps of main() of apps/test.cpp on node n.
TestMain(n) ==
    \/ TestBarrierCall(n)
    \/ TestBarrierReturn(n)
    \/ TestReadCall(n)
    \/ TestWhile(n)
    \/ TestIf(n)
    \/ TestWriteCall(n)
    \/ TestIncrement(n)

NextTest ==
    \/ \E n \in NodeIds : TestMain(n)
    \/ CoherenceWake
    \/ CoherenceReceive
    \/ BarrierWake
    \/ BarrierReceive

\* The scheduler starves neither main() nor a thread of the run-time.
TestFairness ==
    /\ Fairness
    /\ \A n \in NodeIds : WF_vars(TestMain(n))

TestSpec == TestInit /\ [][NextTest]_vars /\ TestFairness

\* ------------------------------------------------------------ properties

\* The nodes that have `a` in an owner state.
Owners == {n \in Nodes : state_[n] \in OwnerStates}

\* The messages of an ownership transfer.
TransferTypes == {MSG_REQUEST_OWNERSHIP, MSG_GRANT_OWNERSHIP, MSG_SET_NEW_OWNER}

\* A message of one of the given types was sent and not yet received.
InFlight(types) ==
    \E i \in Nodes : \E j \in Nodes : \E k \in 1 .. Len(chan[i][j]) :
        chan[i][j][k].type \in types

\* The application thread of node n is inside Policy::before_local_write.
InBeforeLocalWrite(n) ==
    pc[n] \in {"wait_grant", "woken_grant", "wait_inval", "woken_inval"}

\* No ownership transfer is in flight: no message of a transfer is in a
\* connection or inside its handler, no node is inside before_local_write.
NoTransferInFlight ==
    /\ ~InFlight(TransferTypes)
    /\ \A n \in Nodes : \A m \in Nodes : rpc[n][m] # "hung"
    /\ \A n \in Nodes : ~InBeforeLocalWrite(n)

\* C1: whenever no ownership transfer is in flight, exactly one node has the
\* variable in an owner state (OWNER_SHARED or OWNER_NO_SHARED).
C1_ExactlyOneOwnerOutsideTransfer ==
    NoTransferInFlight => Cardinality(Owners) = 1

\* C2: from the return of before_local_write until data_ is written, the writing
\* node has the variable in OWNER_NO_SHARED (OWNER_EXCLUSIVE).
C2_WriterHoldsExclusive ==
    \A n \in Nodes : (pc[n] = "w_ret" /\ dictionary_[n]) => state_[n] = OWNER_NO_SHARED

\* C3: when a local write of node n completes, every other node has the variable
\* in REMOTE_OWNER_NO_CACHED (REMOTE_STALE).
C3_WriteLeavesOthersStale ==
    [][\A n \in Nodes :
          (pc[n] = "w_ret" /\ pc'[n] # "w_ret")
              => \A m \in Nodes \ {n} : state_'[m] = REMOTE_OWNER_NO_CACHED]_vars

\* C4: a node in REMOTE_OWNER_CACHED holds the value the owner holds.
C4_CachedValueIsOwnersValue ==
    \A n \in Nodes : \A o \in Nodes :
        (state_[n] = REMOTE_OWNER_CACHED /\ state_[o] \in OwnerStates)
            => data_[n] = data_[o]

\* Every node has just returned from a barrier.
AllReturnedFromBarrier == \A n \in Nodes : pc[n] = "b_ret"

\* C5: once a barrier has returned on all nodes, the owner holds the value of the
\* latest completed write, an increment being applied to the latest value.
C5_OwnerHoldsLatestAfterBarrier ==
    AllReturnedFromBarrier => \A o \in Owners : data_[o] = ideal

\* No connection is ever full: the bound MaxChan holds no sender back.
ChannelsBelowBound ==
    \A i \in Nodes : \A j \in Nodes : i # j => Len(chan[i][j]) < MaxChan

\* C6: every call of before_local_write that has to wait returns, with the
\* variable in OWNER_NO_SHARED (OWNER_EXCLUSIVE) on the calling node.
C6_BeforeLocalWriteReturns ==
    \A n \in NodeIds :
        (n \in Nodes /\ pc[n] \in {"wait_grant", "wait_inval"})
            ~> (n \in Nodes /\ pc[n] = "w_ret" /\ state_[n] = OWNER_NO_SHARED)

\* C7: every call of before_local_read made in REMOTE_OWNER_NO_CACHED returns,
\* with the variable in REMOTE_OWNER_CACHED on the calling node.
C7_BeforeLocalReadReturns ==
    \A n \in NodeIds :
        (n \in Nodes /\ pc[n] = "wait_value")
            ~> (n \in Nodes /\ pc[n] = "r_ret" /\ state_[n] = REMOTE_OWNER_CACHED)

\* C8: for every barrier id s, a node returns from thread_wait_barrier(s) for the
\* k-th time only once every node has entered thread_wait_barrier(s) k times.
C8_BarrierSafety ==
    \A s \in BarrierIds : \A n \in Nodes : \A m \in Nodes :
        bret[n][s] <= benter[m][s]

\* Every node has entered thread_wait_barrier(s) at least k times.
AllEntered(s, k) == \A n \in Nodes : benter[n][s] >= k

\* Every node has returned from thread_wait_barrier(s) at least k times.
AllReturned(s, k) == \A n \in Nodes : bret[n][s] >= k

\* C9: once all nodes have entered thread_wait_barrier(s), every node returns
\* from it.
C9_BarrierLiveness ==
    \A s \in BarrierIds : \A k \in 1 .. MaxRounds :
        AllEntered(s, k) ~> AllReturned(s, k)

\* Every node of apps/test.cpp is past the PBSM_BARRIER() of line 23.
AllInLoop == \A n \in Nodes : tpc[n] # "L23"

\* Every node of apps/test.cpp has left the while loop on reading K, and K
\* increments were performed in total.
LoopFinished ==
    /\ \A n \in Nodes : tpc[n] \in {"L40", "done"} /\ rd[n] = TargetK
    /\ incs = TargetK

\* C10: the alternating-increment loop of apps/test.cpp ends on both nodes, both
\* having read K, after exactly K increments.
C10_AlternatingIncrementTerminates == AllInLoop ~> LoopFinished

\* No node has returned from its k-th round of the loop barrier before every
\* node has entered its k-th round.
RoundSafety ==
    \A n \in Nodes : \A m \in Nodes : bret[n][BarrierLoop] <= benter[m][BarrierLoop]

\* C11: in the loop of apps/test-barrier.cpp every round completes: the k-th
\* return of a node comes after the k-th entry of every node, and every node
\* makes its k-th return once all nodes made their k-th entry.
C11_RepeatedBarrierRounds ==
    /\ []RoundSafety
    /\ \A k \in 1 .. MaxLoopRounds :
           AllEntered(BarrierLoop, k) ~> AllReturned(BarrierLoop, k)

\* ------------------------------- scenarios S1..S4: one operation at a time
\* An application on two nodes that passes PBSM_BARRIER() once and then calls
\* the operators of `a` one at a time: a call starts only when no other
\* operation on `a` is in progress on any node.  tpc[n] is "start" before the
\* barrier, "ready" after it, and then the last operation the node completed
\* ("read" or "written").

\* No operation on `a` is in progress: every application thread is between two
\* operations, nothing is in flight and every receiver thread is at recv_from.
Quiescent ==
    /\ \A n \in Nodes : pc[n] = "idle" /\ tpc[n] # "start" /\ v_mutex[n] = Unlocked
    /\ \A n \in Nodes : \A m \in Nodes : chan[n][m] = << >> /\ rpc[n][m] = "recv"

\* PBSM_BARRIER() at the start of the scenario.
SeqBarrierCall(n) ==
    /\ n \in Nodes
    /\ tpc[n] = "start"
    /\ pc[n] = "idle"
    /\ thread_wait_barrier(n, Barrier1)
    /\ BarrierFrame

\* The return of PBSM_BARRIER().
SeqBarrierReturn(n) ==
    /\ n \in Nodes
    /\ tpc[n] = "start"
    /\ pc[n] = "b_ret"
    /\ pc' = [pc EXCEPT ![n] = "idle"]
    /\ bar' = [bar EXCEPT ![n] = Null]
    /\ tpc' = [tpc EXCEPT ![n] = "ready"]
    /\ UNCHANGED <<chan, master_waiting_barrier_grants_, benter, bret, rd, incs>>
    /\ UNCHANGED <<number_of_nodes_, rpc, ideal>>
    /\ UNCHANGED coh_vars

\* A read operator of shared<int> calls Policy::before_local_read.
SeqReadCall(n) ==
    /\ n \in Nodes
    /\ Quiescent
    /\ before_local_read(n)
    /\ AppFrame
    /\ UNCHANGED <<data_, ideal>>
    /\ UNCHANGED test_vars

\* shared<int>::operator T: return data_, after the hook has returned.
SeqReadReturn(n) ==
    /\ n \in Nodes
    /\ tpc[n] \in {"ready", "read", "written"}
    /\ pc[n] = "r_ret"
    /\ rd' = [rd EXCEPT ![n] = data_[n]]
    /\ tpc' = [tpc EXCEPT ![n] = "read"]
    /\ pc' = [pc EXCEPT ![n] = "idle"]
    /\ AppFrame
    /\ UNCHANGED <<state_, remote_owner_, counter_, data_, chan, ideal, incs>>

\* shared<int>::operator=(T) calls Policy::before_local_write.
SeqWriteCall(n) ==
    /\ n \in Nodes
    /\ Quiescent
    /\ before_local_write(n)
    /\ AppFrame
    /\ UNCHANGED <<data_, ideal>>
    /\ UNCHANGED test_vars

\* shared<int>::operator=(T): data_ = other, after the hook has returned.
SeqAssign(n, other) ==
    /\ n \in Nodes
    /\ tpc[n] \in {"ready", "read", "written"}
    /\ pc[n] = "w_ret"
    /\ data_' = [data_ EXCEPT ![n] = other]
    /\ ideal' = other
    /\ tpc' = [tpc EXCEPT ![n] = "written"]
    /\ pc' = [pc EXCEPT ![n] = "idle"]
    /\ AppFrame
    /\ UNCHANGED <<state_, remote_owner_, counter_, chan, rd, incs>>

\* wait(lock) in before_local_read and before_local_write returns without a
\* notify_all (a spurious wake-up).
SpuriousWakeup(n) ==
    /\ n \in Nodes
    /\ pc[n] \in {"wait_value", "wait_grant", "wait_inval"}
    /\ pc' = [pc EXCEPT ![n] = IF @ = "wait_value" THEN "woken_value"
                               ELSE IF @ = "wait_grant" THEN "woken_grant"
                               ELSE "woken_inval"]
    /\ UNCHANGED <<number_of_nodes_, chan, rpc, ideal>>
    /\ UNCHANGED coh_vars
    /\ UNCHANGED bar_vars
    /\ UNCHANGED test_vars

\* The scenario on two nodes, before PBSM_BARRIER().
SeqInit ==
    /\ Started(2)
    /\ tpc = [n \in 0 .. 1 |-> "start"]

\* The steps of the application thread of node n in the scenario.
SeqMain(n) ==
    \/ SeqBarrierCall(n)
    \/ SeqBarrierReturn(n)
    \/ SeqReadCall(n)
    \/ SeqReadReturn(n)
    \/ SeqWriteCall(n)
    \/ \E other \in Values : SeqAssign(n, other)

\* The steps of the receiver threads on coherence messages in the scenario.  On
\* two nodes with one operation at a time every request reaches the owner, so
\* no MSG_SET_NEW_OWNER is ever sent and its handler has nothing to receive.
SeqReceive ==
    \E n \in NodeIds : \E m \in NodeIds :
        \/ HandleRequestOwnership(n, m)
        \/ HandleGrantOwnership(n, m)
        \/ HandleAskCurrentValue(n, m)
        \/ HandleSetNewValue(n, m)
        \/ HandleInvalidateCopy(n, m)
        \/ SendInvalidateCopyAck(n, m)
        \/ HandleInvalidateCopyAck(n, m)

NextSeq ==
    \/ \E n \in NodeIds : SeqMain(n)
    \/ CoherenceWake
    \/ SeqReceive
    \/ BarrierWake
    \/ BarrierReceive

\* The scheduler starves no thread of the run-time, and an operation that has
\* returned from its hook completes.
SeqFairness ==
    /\ Fairness
    /\ \A n \in NodeIds : WF_vars(SeqReadReturn(n) \/ \E other \in Values : SeqAssign(n, other))

\* The scenario with waits that return only once notified.
SeqSpec == SeqInit /\ [][NextSeq]_vars /\ SeqFairness

\* The scenario on a platform whose condition variables wake spuriously.
NextSpuriousSeq ==
    \/ NextSeq
    \/ \E n \in NodeIds : SpuriousWakeup(n)

SpuriousSeqSpec == SeqInit /\ [][NextSpuriousSeq]_vars /\ SeqFairness

\* No node has started an operation on `a` since the barrier.
Fresh == \A m \in Nodes : tpc[m] = "ready"

\* C12 (as stated): in scenario S1 the first read of `a` by the slave, after
\* the barrier and before any other operation, sends MSG_ASK_CURRENT_VALUE to
\* the master and waits for the MSG_SET_NEW_VALUE that carries 0.
C12_FirstReadAsksMaster ==
    [][\A n \in Nodes \ {0} :
          (Fresh /\ SeqReadCall(n)) =>
              /\ pc'[n] = "wait_value"
              /\ chan'[n][0] = <<msg_t(MSG_ASK_CURRENT_VALUE, VarA, n, Uninit)>>]_vars

\* C12 (amended): in scenario S1 the first read of `a` by the slave finds the
\* variable REMOTE_OWNER_CACHED with remote_owner_ 0, sends no message, does
\* not wait, leaves the state as it is and returns the slave's own initial
\* value 0.
C12_FirstReadIsLocal ==
    [][\A n \in Nodes \ {0} :
          /\ (Fresh /\ SeqReadCall(n)) =>
                /\ state_[n] = REMOTE_OWNER_CACHED /\ remote_owner_[n] = 0
                /\ pc'[n] = "r_ret"
                /\ UNCHANGED <<chan, state_, remote_owner_, data_>>
          /\ (Fresh /\ SeqReadReturn(n)) =>
                /\ rd'[n] = 0
                /\ state_'[n] = REMOTE_OWNER_CACHED
                /\ \A i \in Nodes : \A j \in Nodes : chan'[i][j] = << >>]_vars

\* The slave has completed the first operation of the scenario, a read.
C12_Witness ==
    /\ tpc[0] = "ready" /\ tpc[1] = "read"
    /\ pc[1] = "idle" /\ rd[1] = 0 /\ state_[1] = REMOTE_OWNER_CACHED

\* The two nodes of scenarios S1..S4.
SeqNodes == {0, 1}

\* Node O has granted `a` to node W and W has taken it.
Granted(O, W) ==
    /\ state_[O] = REMOTE_OWNER_NO_CACHED /\ remote_owner_[O] = W
    /\ state_[W] = OWNER_NO_SHARED

\* C13: on two nodes, when a non-owner W writes `a` while O owns it and no
\* other operation is in progress, W sends MSG_REQUEST_OWNERSHIP to O and
\* waits; O, handling it, moves to REMOTE_OWNER_NO_CACHED with remote_owner_ W
\* and replies MSG_GRANT_OWNERSHIP; W's data_ is written only in
\* OWNER_NO_SHARED; and the handshake completes.
C13_OwnershipHandshake ==
    /\ [][\A W \in SeqNodes : \A O \in SeqNodes \ {W} :
            /\ (SeqWriteCall(W) /\ state_[W] \in RemoteStates /\ state_[O] \in OwnerStates) =>
                  /\ pc'[W] = "wait_grant"
                  /\ chan'[W][O] = <<msg_t(MSG_REQUEST_OWNERSHIP, VarA, W, Uninit)>>
            /\ (HandleRequestOwnership(O, W) /\ state_[O] \in OwnerStates) =>
                  /\ state_'[O] = REMOTE_OWNER_NO_CACHED
                  /\ remote_owner_'[O] = W
                  /\ chan'[O][W] = <<msg_t(MSG_GRANT_OWNERSHIP, VarA, O, Uninit)>>
            /\ (\E other \in Values : SeqAssign(W, other)) =>
                  state_[W] = OWNER_NO_SHARED]_vars
    /\ \A W \in SeqNodes : \A O \in SeqNodes \ {W} :
            (pc[W] = "wait_grant" /\ state_[O] \in OwnerStates) ~> Granted(O, W)

\* Scenario S2 is over: the slave asked the master for `a`, got it and wrote 1.
C13_Witness ==
    /\ Quiescent
    /\ tpc[1] = "written" /\ data_[1] = 1
    /\ Granted(0, 1)

\* C14: when R reads `a` in REMOTE_OWNER_NO_CACHED and its remote_owner_ O owns
\* `a`, R sends MSG_ASK_CURRENT_VALUE to O and waits; O, handling it, moves to
\* OWNER_SHARED and replies MSG_SET_NEW_VALUE with its data_; R stores the value
\* received; R leaves its wait to REMOTE_OWNER_CACHED holding the value O held,
\* and that is the value the read returns.
C14_ReadRefreshHandshake ==
    [][\A R \in SeqNodes : \A O \in SeqNodes \ {R} :
          /\ (SeqReadCall(R) /\ state_[R] = REMOTE_OWNER_NO_CACHED
                  /\ remote_owner_[R] = O /\ state_[O] \in OwnerStates) =>
                /\ pc'[R] = "wait_value"
                /\ chan'[R][O] = <<msg_t(MSG_ASK_CURRENT_VALUE, VarA, R, Uninit)>>
          /\ (HandleAskCurrentValue(O, R) /\ state_[O] \in OwnerStates) =>
                /\ state_'[O] = OWNER_SHARED
                /\ chan'[O][R] = <<msg_t(MSG_SET_NEW_VALUE, VarA, Uninit, data_[O])>>
          /\ HandleSetNewValue(R, O) => data_'[R] = Head(chan[O][R]).bytes
          /\ (ReadWake(R) /\ remote_owner_[R] = O) =>
                /\ state_'[R] = REMOTE_OWNER_CACHED
                /\ data_[R] = data_[O]
          /\ (SeqReadReturn(R) /\ state_[R] \in RemoteStates /\ remote_owner_[R] = O) =>
                rd'[R] = data_[O]]_vars

\* ---------------------- scenario S5: two slaves write while the master owns
\* Three nodes; node 0 owns `a` and calls nothing; nodes 1 and 2 each assign
\* `a` once (tpc "S5" before the call, "written" after the assignment).

\* shared<int>::operator=(T) on a slave calls Policy::before_local_write.
S5WriteCall(n) ==
    /\ n \in Nodes \ {0}
    /\ tpc[n] = "S5"
    /\ pc[n] = "idle"
    /\ before_local_write(n)
    /\ AppFrame
    /\ UNCHANGED <<data_, ideal>>
    /\ UNCHANGED test_vars

\* shared<int>::operator=(T): data_ = other with the slave's number as value,
\* after the hook has returned.
S5Assign(n) ==
    /\ n \in Nodes \ {0}
    /\ tpc[n] = "S5"
    /\ pc[n] = "w_ret"
    /\ data_' = [data_ EXCEPT ![n] = n]
    /\ ideal' = n
    /\ tpc' = [tpc EXCEPT ![n] = "written"]
    /\ pc' = [pc EXCEPT ![n] = "idle"]
    /\ AppFrame
    /\ UNCHANGED <<state_, remote_owner_, counter_, chan, rd, incs>>

S5Init ==
    /\ Started(3)
    /\ tpc = [n \in 0 .. 2 |-> IF n = 0 THEN "owner" ELSE "S5"]

\* The steps of the application thread of node n in scenario S5.
S5Main(n) == S5WriteCall(n) \/ WriteWake(n) \/ S5Assign(n)

\* The number of messages sent and not yet received.
RECURSIVE SumLen(_, _)
SumLen(ch, pairs) ==
    IF pairs = {} THEN 0
    ELSE LET p == CHOOSE q \in pairs : TRUE
         IN  Len(ch[p[1]][p[2]]) + SumLen(ch, pairs \ {p})
TotalInFlight == SumLen(chan, Nodes \X Nodes)

\* case MSG_SET_NEW_OWNER in scenario S5: a redirected request is sent again
\* while fewer than MaxFlight messages are in flight (a redirect can follow a
\* redirect without end).
S5HandleSetNewOwner(n, m) ==
    /\ TotalInFlight < MaxFlight
    /\ HandleSetNewOwner(n, m)

\* The steps of the receiver thread of node n for remote node m in scenario S5:
\* only the messages of an ownership transfer are ever sent.
S5ReceiverThread(n, m) ==
    \/ HandleRequestOwnership(n, m)
    \/ HandleGrantOwnership(n, m)
    \/ S5HandleSetNewOwner(n, m)

S5Receive == \E n \in NodeIds : \E m \in NodeIds : S5ReceiverThread(n, m)

NextS5 ==
    \/ \E n \in NodeIds : S5Main(n)
    \/ S5Receive

\* The scheduler starves neither an application thread nor a receiver thread.
S5Fairness ==
    /\ \A n \in NodeIds : WF_vars(S5Main(n))
    /\ \A n \in NodeIds : \A m \in NodeIds : WF_vars(S5ReceiverThread(n, m))

S5Spec == S5Init /\ [][NextS5]_vars /\ S5Fairness

\* Both slaves have returned from before_local_write and assigned `a`.
S5BothWritten == tpc[1] = "written" /\ tpc[2] = "written"

\* C15: in scenario S5 the master grants `a` to the slave whose request it
\* handles first and records it as remote_owner_; both calls of
\* before_local_write eventually return; and from some point on exactly one
\* node owns `a`.
C15_ConcurrentRequestsConverge ==
    /\ [][\A W \in {1, 2} :
            (HandleRequestOwnership(0, W) /\ state_[0] \in OwnerStates) =>
                /\ remote_owner_'[0] = W
                /\ chan'[0][W] = Append(chan[0][W], msg_t(MSG_GRANT_OWNERSHIP, VarA, 0, Uninit))]_vars
    /\ <>S5BothWritten
    /\ <>[](Cardinality(Owners) = 1)

\* C16: before_local_read in any state but REMOTE_OWNER_NO_CACHED, and
\* before_local_write in OWNER_NO_SHARED, return at once: no message is sent,
\* the thread does not wait, and state_, remote_owner_, counter_ and data_ of
\* every node stay as they are.
C16_FastPathsHaveNoEffect ==
    [][\A n \in Nodes :
          /\ (ReadCall(n) /\ state_[n] # REMOTE_OWNER_NO_CACHED) =>
                /\ pc'[n] = "r_ret"
                /\ UNCHANGED <<chan, state_, remote_owner_, counter_, data_>>
          /\ (WriteCall(n) /\ state_[n] = OWNER_NO_SHARED) =>
                /\ pc'[n] = "w_ret"
                /\ UNCHANGED <<chan, state_, remote_owner_, counter_, data_>>]_vars

\* Both nodes have returned from before_local_read on the fast path: the master
\* as owner, the slave on the copy it has cached since start-up (the master
\* never invalidated it nor gave `a` away), and nothing was sent.
C16_Witness ==
    /\ pc[0] = "r_ret" /\ state_[0] = OWNER_SHARED
    /\ pc[1] = "r_ret" /\ state_[1] = REMOTE_OWNER_CACHED
    /\ counter_[0] = Uninit /\ remote_owner_[0] = Uninit
    /\ \A i \in Nodes : \A j \in Nodes : chan[i][j] = << >>

\* ------------------------------------------- start-up, one step at a time
\* tpc[n] is "main" before pbsm_init and before `a` is declared, "main_decl"
\* when `a` was declared first (a global, constructed before main), "inited"
\* when pbsm_init ran first (a local of main, as in apps/test.cpp), and "free"
\* when both are done and the application calls the operators of `a`.

\* There is no var_data for `a` on the node.
NoVarData == "no var_data"

\* pbsm_tid before pbsm_init has set it.
NoTid == -1

\* pbsm_tid as node n's run-time reads it.
pbsm_tid(n) == IF tpc[n] \in {"main", "main_decl"} THEN NoTid ELSE n

\* The constructor of shared<int> a (DEF, 0): Policy::at_variable_creation.
DeclareVariable(n) ==
    /\ n \in Nodes
    /\ tpc[n] \in {"main", "inited"}
    /\ pc[n] = "idle"
    /\ dictionary_' = [dictionary_ EXCEPT ![n] = TRUE]
    /\ state_' = [state_ EXCEPT ![n] = at_variable_creation(pbsm_tid(n)).state]
    /\ remote_owner_' = [remote_owner_ EXCEPT ![n] = at_variable_creation(pbsm_tid(n)).remote_owner]
    /\ data_' = [data_ EXCEPT ![n] = 0]
    /\ tpc' = [tpc EXCEPT ![n] = IF @ = "main" THEN "main_decl" ELSE "free"]
    /\ UNCHANGED <<number_of_nodes_, counter_, v_mutex, chan, pc, rpc, ideal, rd, incs>>
    /\ UNCHANGED bar_vars

\* master_node_init were it to leave the variables that exist as they are.
master_node_init_skipped(n) == UNCHANGED <<state_, remote_owner_>>

\* Policy::master_node_init: every variable that exists becomes OWNER_SHARED.
master_node_init(n) ==
    /\ state_' = [state_ EXCEPT ![n] = IF dictionary_[n] THEN OWNER_SHARED ELSE @]
    /\ UNCHANGED remote_owner_

\* Policy::slave_node_init: every variable that exists becomes
\* REMOTE_OWNER_CACHED with the master as owner.
slave_node_init(n) ==
    /\ state_' = [state_ EXCEPT ![n] = IF dictionary_[n] THEN REMOTE_OWNER_CACHED ELSE @]
    /\ remote_owner_' = [remote_owner_ EXCEPT ![n] = IF dictionary_[n] THEN 0 ELSE @]

\* pbsm_init: pbsm_tid is set, master_node_init or slave_node_init, and
\* start_receiving starts one receiver thread per remote node.
pbsm_init(n) ==
    /\ n \in Nodes
    /\ tpc[n] \in {"main", "main_decl"}
    /\ pc[n] = "idle"
    /\ IF n = 0 THEN master_node_init(n) ELSE slave_node_init(n)
    /\ rpc' = [rpc EXCEPT ![n] = [m \in Nodes |-> "recv"]]
    /\ tpc' = [tpc EXCEPT ![n] = IF @ = "main" THEN "inited" ELSE "free"]
    /\ UNCHANGED <<number_of_nodes_, dictionary_, counter_, data_, v_mutex, chan, pc,
                   ideal, rd, incs>>
    /\ UNCHANGED bar_vars

\* Two processes at the top of main(), before pbsm_init.
StartInit ==
    /\ number_of_nodes_ = NumNodes
    /\ dictionary_ = [n \in 0 .. NumNodes - 1 |-> FALSE]
    /\ state_ = [n \in 0 .. NumNodes - 1 |-> NoVarData]
    /\ remote_owner_ = [n \in 0 .. NumNodes - 1 |-> Uninit]
    /\ counter_ = [n \in 0 .. NumNodes - 1 |-> Uninit]
    /\ data_ = [n \in 0 .. NumNodes - 1 |-> 0]
    /\ v_mutex = [n \in 0 .. NumNodes - 1 |-> Unlocked]
    /\ chan = [i \in 0 .. NumNodes - 1 |-> [j \in 0 .. NumNodes - 1 |-> << >>]]
    /\ pc = [n \in 0 .. NumNodes - 1 |-> "idle"]
    /\ bar = [n \in 0 .. NumNodes - 1 |-> Null]
    /\ rpc = [n \in 0 .. NumNodes - 1 |-> [m \in 0 .. NumNodes - 1 |-> "off"]]
    /\ master_waiting_barrier_grants_ =
           [n \in 0 .. NumNodes - 1 |-> [s \in AllBarrierIds |-> NullElem]]
    /\ ideal = 0
    /\ benter = [n \in 0 .. NumNodes - 1 |-> [s \in AllBarrierIds |-> 0]]
    /\ bret = [n \in 0 .. NumNodes - 1 |-> [s \in AllBarrierIds |-> 0]]
    /\ rd = [n \in 0 .. NumNodes - 1 |-> 0]
    /\ incs = 0
    /\ tpc = [n \in 0 .. NumNodes - 1 |-> "main"]

\* The steps of start-up on node n.
StartUp(n) == DeclareVariable(n) \/ pbsm_init(n)

NextStart ==
    \/ \E n \in NodeIds : StartUp(n)
    \/ NextCoherence

\* Start-up followed by an application that calls the operators of `a` freely.
StartSpec == StartInit /\ [][NextStart]_vars

\* A step of the receiver thread of node n for remote node m on a coherence
\* message.
CoherenceReceiver(n, m) ==
    \/ HandleRequestOwnership(n, m)
    \/ HandleGrantOwnership(n, m)
    \/ HandleSetNewOwner(n, m)
    \/ HandleAskCurrentValue(n, m)
    \/ HandleSetNewValue(n, m)
    \/ HandleInvalidateCopy(n, m)
    \/ SendInvalidateCopyAck(n, m)
    \/ HandleInvalidateCopyAck(n, m)

\* C17: when start-up is complete on a node (`a` is declared and pbsm_init has
\* run, in either order) `a` is OWNER_SHARED on node 0 and REMOTE_OWNER_CACHED
\* with remote_owner_ 0 on every other node; declaring `a` sends no message.
C17_InitialState ==
    [][\A n \in Nodes :
          /\ (StartUp(n) /\ tpc'[n] = "free") =>
                IF n = 0
                THEN state_'[n] = OWNER_SHARED
                ELSE state_'[n] = REMOTE_OWNER_CACHED /\ remote_owner_'[n] = 0
          /\ DeclareVariable(n) => UNCHANGED chan]_vars

\* Start-up is complete on both nodes, `a` was declared before pbsm_init on the
\* master (only at_variable_creation with pbsm_tid -1 gives the master a
\* remote_owner_ of 0) and no operator of `a` was called yet.
C17_Witness ==
    /\ tpc[0] = "free" /\ tpc[1] = "free"
    /\ state_[0] = OWNER_SHARED /\ remote_owner_[0] = 0
    /\ state_[1] = REMOTE_OWNER_CACHED /\ remote_owner_[1] = 0
    /\ counter_[0] = Uninit
    /\ \A n \in Nodes : pc[n] = "idle"
    /\ \A i \in Nodes : \A j \in Nodes : chan[i][j] = << >>

\* C18: a coherence message for a variable that is not registered on the
\* receiving node is dropped: the receiver thread changes no state_,
\* remote_owner_, counter_ or data_, wakes no thread and sends nothing.
C18_UnregisteredIdIsDropped ==
    [][\A n \in Nodes : \A m \in Nodes :
          (~dictionary_[n] /\ CoherenceReceiver(n, m)) =>
              /\ chan'[n] = chan[n]
              /\ UNCHANGED <<state_, remote_owner_, counter_, data_, pc>>]_vars

\* ------------------------------------------- barrier messages out of role
\* A peer sends a barrier message to a node that has not the role for it: a
\* MSG_BARRIER_BLOCK to a slave or a MSG_BARRIER_UNBLOCK to the master (a node
\* started with the wrong id, or a datagram from elsewhere).  One such message
\* at a time per connection, and none to a slave whose counter has reached 0.
WrongRoleMessage(m, n) ==
    /\ m \in Nodes /\ n \in Nodes /\ m # n
    /\ chan[m][n] = << >>
    /\ IF n = 0
       THEN chan' = send_to(chan, m, msg_t(MSG_BARRIER_UNBLOCK, Barrier1, Uninit, Uninit), n)
       ELSE /\ LET elem == master_waiting_barrier_grants_[n][Barrier1]
               IN  IF elem = NullElem THEN TRUE ELSE Positive(elem[1])
            /\ chan' = send_to(chan, m, msg_t(MSG_BARRIER_BLOCK, Barrier1, Uninit, Uninit), n)
    /\ UNCHANGED pc
    /\ UNCHANGED bar_vars
    /\ BarrierFrame

\* The free barrier application on the first site, with peers that send
\* barrier messages out of role.
NextWrongRole ==
    \/ BarrierApp
    \/ BarrierWake
    \/ BarrierReceive
    \/ \E m \in NodeIds : \E n \in NodeIds : WrongRoleMessage(m, n)

WrongRoleSpec == Init /\ [][NextWrongRole]_vars

\* C19: a slave that handles MSG_BARRIER_BLOCK and a master that handles
\* MSG_BARRIER_UNBLOCK leave the barrier table, its counters and every
\* application thread as they are.
C19_WrongRoleBarrierMessageIsDropped ==
    [][\A n \in Nodes : \A m \in Nodes :
          ((n # 0 /\ HandleBarrierBlock(n, m)) \/ (n = 0 /\ HandleBarrierUnblock(n, m))) =>
              UNCHANGED <<master_waiting_barrier_grants_, pc, bar, benter, bret>>]_vars

\* ------------------------------------------------ a send that fails
\* CommunicationHandler::send_to / send_to_all return false (send() did not
\* take the whole message) and nothing is delivered.

\* Policy::before_local_read when the send of requestCurrentValue fails: the
\* result of requestCurrentValue is not looked at and the thread waits.
before_local_read_send_fails(n) ==
    /\ dictionary_[n]
    /\ MutexFree(n)
    /\ state_[n] = REMOTE_OWNER_NO_CACHED
    /\ pc' = [pc EXCEPT ![n] = "wait_value"]
    /\ UNCHANGED <<chan, state_, remote_owner_, counter_>>

\* Policy::before_local_write when the send of send_request_ownership or of
\* MSG_INVALIDATE_COPY fails: ret becomes false at most, and the thread waits.
before_local_write_send_fails(n) ==
    /\ dictionary_[n]
    /\ MutexFree(n)
    /\ state_[n] # OWNER_NO_SHARED
    /\ IF state_[n] \in RemoteStates
       THEN /\ pc' = [pc EXCEPT ![n] = "wait_grant"]
            /\ UNCHANGED counter_
       ELSE /\ counter_' = [counter_ EXCEPT ![n] = number_of_nodes_ - 1]
            /\ pc' = [pc EXCEPT ![n] = "wait_inval"]
    /\ UNCHANGED <<chan, state_, remote_owner_>>

\* A read operator of shared<int> whose hook meets a failing send.
SeqReadCallSendFails(n) ==
    /\ n \in Nodes
    /\ Quiescent
    /\ before_local_read_send_fails(n)
    /\ AppFrame
    /\ UNCHANGED <<data_, ideal>>
    /\ UNCHANGED test_vars

\* shared<int>::operator=(T) whose hook meets a failing send.
SeqWriteCallSendFails(n) ==
    /\ n \in Nodes
    /\ Quiescent
    /\ before_local_write_send_fails(n)
    /\ AppFrame
    /\ UNCHANGED <<data_, ideal>>
    /\ UNCHANGED test_vars

\* The scenario of one operation at a time over a transport whose sends may fail.
NextSendFail ==
    \/ NextSeq
    \/ \E n \in NodeIds : SeqReadCallSendFails(n) \/ SeqWriteCallSendFails(n)

SendFailSpec == SeqInit /\ [][NextSendFail]_vars /\ SeqFairness

\* The application thread of node n is in a wait of a coherence hook.
InHookWait(n) == pc[n] \in {"wait_value", "wait_grant", "wait_inval"}

\* C20: a call of before_local_read or before_local_write returns to its
\* caller also when its send fails: a thread that waits in a hook leaves it.
C20_HookReturnsAfterSendFailure ==
    \A n \in SeqNodes : InHookWait(n) ~> ~InHookWait(n)

\* The connections out of node n differ from before by one more
\* MSG_REQUEST_OWNERSHIP on the connection to `owner` and by nothing else.
RequestSentOnlyTo(n, owner, before) ==
    \A j \in Nodes :
        chan'[n][j] = IF j = owner
                      THEN Append(before[n][j], msg_t(MSG_REQUEST_OWNERSHIP, VarA, n, Uninit))
                      ELSE before[n][j]

\* C21: a MSG_REQUEST_OWNERSHIP goes to one node only: from before_local_write
\* to the caller's remote_owner_, and from the MSG_SET_NEW_OWNER handler to the
\* node the message names.
C21_RequestGoesToRemoteOwnerOnly ==
    [][\A n \in Nodes \ {0} :
          /\ (S5WriteCall(n) /\ state_[n] \in RemoteStates) =>
                RequestSentOnlyTo(n, remote_owner_[n], chan)
          /\ \A m \in Nodes :
                (S5HandleSetNewOwner(n, m) /\ rpc'[n][m] = "recv") =>
                    RequestSentOnlyTo(n, Head(chan[m][n]).node, Taken(n, m))]_vars

\* C22: a node that has the variable in a remote state and handles a
\* MSG_REQUEST_OWNERSHIP or a MSG_ASK_CURRENT_VALUE of node R sends one
\* MSG_SET_NEW_OWNER that carries its remote_owner_ to R, sends nothing else, and
\* leaves its state, its remote_owner_ and its value as they were.
C22_NonOwnerRedirects ==
    [][\A n \in Nodes : \A m \in Nodes :
          ( /\ HandleRequestOwnership(n, m) \/ HandleAskCurrentValue(n, m)
            /\ dictionary_[n]
            /\ state_[n] \in RemoteStates ) =>
              /\ chan' = send_to(Taken(n, m), n,
                                 msg_t(MSG_SET_NEW_OWNER, VarA, remote_owner_[n], Uninit),
                                 Head(chan[m][n]).node)
              /\ state_'[n] = state_[n]
              /\ remote_owner_'[n] = remote_owner_[n]
              /\ data_'[n] = data_[n]]_vars

\* A redirection is in flight: a remote node has answered a request or a question.
C22_Witness ==
    \E n \in Nodes : \E m \in Nodes :
        /\ n # m
        /\ state_[n] \in RemoteStates
        /\ remote_owner_[n] \in Nodes
        /\ \E i \in 1 .. Len(chan[n][m]) :
              chan[n][m][i] = msg_t(MSG_SET_NEW_OWNER, VarA, remote_owner_[n], Uninit)

\* ------------------------------------------- destruction of the variable
\* `a` goes out of scope on a node while the other nodes still use it.

\* CommunicationHandler::send_two_messages_to_all: header and value, under the
\* lock of each send channel, to every node but the sender (a header and the
\* value that follows it are one element of a connection; m.bytes is the value).
send_two_messages_to_all(ch, from, m) == send_to_all(ch, from, m)

\* at_variable_destruction were it to leave the entry of dictionary_ in place.
at_variable_destruction_keeps_entry(n) ==
    IF ~dictionary_[n]
    THEN UNCHANGED <<chan, dictionary_, state_, remote_owner_, counter_>>
    ELSE /\ MutexFree(n)
         /\ Room(n, Nodes)
         /\ chan' = send_two_messages_to_all(chan, n,
                        msg_t(MSG_SET_NEW_VALUE, VarA, Uninit, data_[n]))
         /\ UNCHANGED <<dictionary_, state_, remote_owner_, counter_>>

\* Policy::at_variable_destruction with policy_data_.mutex_ taken: the value is
\* sent to all, the var_data is deleted and its entry of dictionary_ is nullptr.
at_variable_destruction(n) ==
    IF ~dictionary_[n]
    THEN UNCHANGED <<chan, dictionary_, state_, remote_owner_, counter_>>
    ELSE /\ MutexFree(n)
         /\ Room(n, Nodes)
         /\ chan' = send_two_messages_to_all(chan, n,
                        msg_t(MSG_SET_NEW_VALUE, VarA, Uninit, data_[n]))
         /\ dictionary_' = [dictionary_ EXCEPT ![n] = FALSE]
         /\ state_' = [state_ EXCEPT ![n] = NoVarData]
         /\ remote_owner_' = [remote_owner_ EXCEPT ![n] = Uninit]
         /\ counter_' = [counter_ EXCEPT ![n] = Uninit]

\* `delete v` while the unique_lock on v->policy_data_.mutex_ is still held, and
\* the unlock of the deleted mutex when the lock goes out of scope: undefined
\* behaviour, which goes unnoticed or ends the process (its threads stop).
DeleteLockedVarData(n) ==
    \/ /\ tpc' = [tpc EXCEPT ![n] = "destroyed"]
       /\ UNCHANGED rpc
    \/ /\ tpc' = [tpc EXCEPT ![n] = "crashed"]
       /\ rpc' = [rpc EXCEPT ![n] = [m \in Nodes |-> "off"]]

\* shared<int>::~shared of a variable that is no temporary object; the
\* application calls no operator of `a` afterwards.
DestroyVariable(n) ==
    /\ n \in Nodes
    /\ pc[n] = "idle"
    /\ tpc[n] = "free"
    /\ at_variable_destruction(n)
    /\ DeleteLockedVarData(n)
    /\ UNCHANGED <<number_of_nodes_, data_, v_mutex, pc, ideal, rd, incs>>
    /\ UNCHANGED bar_vars

\* Two nodes after start-up.
DestroyInit ==
    /\ Started(2)
    /\ tpc = [n \in 0 .. 1 |-> "free"]

NextDestroy ==
    \/ CoherenceApp
    \/ CoherenceWake
    \/ CoherenceReceive
    \/ \E n \in NodeIds : DestroyVariable(n)

\* An application on two nodes that calls the operators of `a` freely until `a`
\* is destroyed.
DestroySpec == DestroyInit /\ [][NextDestroy]_vars

\* Three nodes after start-up.
ScopeExitInit ==
    /\ Started(3)
    /\ tpc = [n \in 0 .. 2 |-> "free"]

NextScopeExit ==
    \/ \E n \in NodeIds : ReadCall(n) \/ ReadReturn(n) \/ DestroyVariable(n)
    \/ \E n \in NodeIds : \E m \in NodeIds : HandleSetNewValue(n, m)

\* An application on three nodes that reads `a` until `a` is destroyed.
ScopeExitSpec == ScopeExitInit /\ [][NextScopeExit]_vars

\* C23: handling a MSG_SET_NEW_VALUE for a registered variable stores the value
\* received and leaves the variable REMOTE_OWNER_CACHED on the receiving node,
\* whether a thread waits in before_local_read (it is then woken and sets the
\* state itself) or none does.
C23_SetNewValueCachesTheValue ==
    [][\A n \in Nodes : \A m \in Nodes :
          (HandleSetNewValue(n, m) /\ dictionary_[n]) =>
              /\ data_'[n] = Head(chan[m][n]).bytes
              /\ \/ state_'[n] = REMOTE_OWNER_CACHED
                 \/ pc'[n] = "woken_value"]_vars

\* After a MSG_SET_NEW_VALUE was handled for a registered variable, its value
\* is the payload.
C23_ValueStored ==
    [][\A n \in Nodes : \A m \in Nodes :
          (HandleSetNewValue(n, m) /\ dictionary_[n]) =>
              data_'[n] = Head(chan[m][n]).bytes]_vars

\* C24: handling a MSG_INVALIDATE_COPY of node R for a registered variable
\* leaves the variable REMOTE_OWNER_NO_CACHED whatever its state was (so a
\* second handling changes nothing more), and the receiver thread receives
\* again only by the step that sends one MSG_INVALIDATE_COPY_ACK to R.
C24_InvalidateCopyIsAcknowledged ==
    [][\A n \in Nodes : \A m \in Nodes \ {n} :
          /\ (HandleInvalidateCopy(n, m) /\ dictionary_[n]) =>
                /\ state_'[n] = REMOTE_OWNER_NO_CACHED
                /\ chan' = Taken(n, m)
                /\ rpc'[n][m] = "ack"
          /\ (rpc[n][m] = "ack" /\ rpc'[n][m] # "ack") =>
                /\ rpc'[n][m] = "recv"
                /\ chan' = [chan EXCEPT ![n][m] =
                               Append(@, msg_t(MSG_INVALIDATE_COPY_ACK, VarA, n, Uninit))]]_vars

\* A copy that was already REMOTE_OWNER_NO_CACHED (its reader was woken and has
\* not run yet) has been invalidated and acknowledged.
C24_Witness ==
    \E n \in Nodes : \E m \in Nodes \ {n} :
        /\ dictionary_[n]
        /\ pc[n] = "woken_value"
        /\ state_[n] = REMOTE_OWNER_NO_CACHED
        /\ chan[n][m] # << >>
        /\ chan[n][m][Len(chan[n][m])] = msg_t(MSG_INVALIDATE_COPY_ACK, VarA, n, Uninit)

\* C25: before_local_write called in OWNER_SHARED sends one MSG_INVALIDATE_COPY
\* to every other node and sets the counter to N-1; while the thread waits the
\* counter changes only by the handling of a MSG_INVALIDATE_COPY_ACK, one down
\* each time; the thread leaves its wait only when the counter has reached 0,
\* and it then returns with the variable in OWNER_NO_SHARED.
C25_WriteWaitsForAllAcks ==
    [][\A n \in Nodes :
          /\ (pc[n] = "idle" /\ pc'[n] \in {"w_ret", "wait_grant", "wait_inval"}
                /\ dictionary_[n] /\ state_[n] = OWNER_SHARED) =>
                /\ pc'[n] = "wait_inval"
                /\ counter_'[n] = number_of_nodes_ - 1
                /\ chan' = send_to_all(chan, n, msg_t(MSG_INVALIDATE_COPY, VarA, n, Uninit))
          /\ (pc[n] = "wait_inval" /\ counter_'[n] # counter_[n]) =>
                /\ counter_'[n] = counter_[n] - 1
                /\ \E m \in Nodes : HandleInvalidateCopyAck(n, m)
          /\ (pc[n] = "wait_inval" /\ pc'[n] # "wait_inval") =>
                /\ pc'[n] = "woken_inval"
                /\ counter_'[n] = 0
          /\ (pc[n] = "woken_inval" /\ pc'[n] # "woken_inval") =>
                /\ pc'[n] = "w_ret"
                /\ counter_[n] = 0
                /\ state_'[n] = OWNER_NO_SHARED]_vars

\* --------------------------------- the connections, one send after the other
\* MSG_SET_NEW_VALUE is two sends, the header and then the value; here each of
\* the two is an element of a connection of its own, on two nodes.

\* The element of a connection that holds the bytes of a value.
ValueBytes == "value bytes"

\* The header of a MSG_SET_NEW_VALUE for `a`, and the value sent after it.
Header == msg_t(MSG_SET_NEW_VALUE, VarA, Uninit, Uninit)
Payload(bytes) == msg_t(ValueBytes, VarA, Uninit, bytes)

\* The node at the other end of node n's only connection.
Peer(n) == CHOOSE j \in Nodes : j # n

\* lock_send_channel, were it to lock nothing.
lock_send_channel_no_lock(n, j) == TRUE

\* lock_send_channel(j) on node n returns: no thread of node n is between the
\* two sends of send_two_messages_to or send_two_messages_to_all to node j.
lock_send_channel(n, j) == pc[n] # "d_payload" /\ rpc[n][j] # "payload"

\* at_variable_destruction up to the first send of send_two_messages_to_all:
\* policy_data_.mutex_ and the send channel are locked and the header is sent.
WireDestroyHeader(n) ==
    /\ n \in Nodes
    /\ pc[n] = "idle"
    /\ tpc[n] = "free"
    /\ dictionary_[n]
    /\ MutexFree(n)
    /\ lock_send_channel(n, Peer(n))
    /\ Room(n, Nodes)
    /\ chan' = send_to(chan, n, Header, Peer(n))
    /\ v_mutex' = [v_mutex EXCEPT ![n] = <<n>>]
    /\ pc' = [pc EXCEPT ![n] = "d_payload"]
    /\ UNCHANGED <<number_of_nodes_, dictionary_, state_, remote_owner_, counter_, data_,
                   rpc, ideal>>
    /\ UNCHANGED bar_vars
    /\ UNCHANGED test_vars

\* ... and from its second send on: the value is sent, the send channel is
\* unlocked, the var_data is deleted and its entry of dictionary_ is nullptr.
WireDestroyPayload(n) ==
    /\ n \in Nodes
    /\ pc[n] = "d_payload"
    /\ Room(n, Nodes)
    /\ chan' = send_to(chan, n, Payload(data_[n]), Peer(n))
    /\ v_mutex' = [v_mutex EXCEPT ![n] = Unlocked]
    /\ dictionary_' = [dictionary_ EXCEPT ![n] = FALSE]
    /\ state_' = [state_ EXCEPT ![n] = NoVarData]
    /\ remote_owner_' = [remote_owner_ EXCEPT ![n] = Uninit]
    /\ counter_' = [counter_ EXCEPT ![n] = Uninit]
    /\ pc' = [pc EXCEPT ![n] = "idle"]
    /\ DeleteLockedVarData(n)
    /\ UNCHANGED <<number_of_nodes_, data_, ideal, rd, incs>>
    /\ UNCHANGED bar_vars

\* case MSG_ASK_CURRENT_VALUE up to the first send of send_two_messages_to: the
\* owner has copied the value (kept with the holder of the mutex) and sent the
\* header.
WireHandleAskCurrentValue(n, m) ==
    /\ Received(n, m, MSG_ASK_CURRENT_VALUE)
    /\ LET msg == Head(chan[m][n]) IN
       IF ~dictionary_[n]
       THEN /\ chan' = Taken(n, m)
            /\ UNCHANGED <<state_, v_mutex, rpc>>
       ELSE /\ MutexFree(n)
            /\ Room(n, {msg.node})
            /\ IF state_[n] \in RemoteStates
               THEN /\ \E owner \in RemoteOwnerRead(n) :
                          chan' = send_to(Taken(n, m), n,
                                          msg_t(MSG_SET_NEW_OWNER, msg.id, owner, Uninit), msg.node)
                    /\ UNCHANGED <<state_, v_mutex, rpc>>
               ELSE /\ lock_send_channel(n, msg.node)
                    /\ state_' = [state_ EXCEPT ![n] = OWNER_SHARED]
                    /\ chan' = send_to(Taken(n, m), n, Header, msg.node)
                    /\ v_mutex' = [v_mutex EXCEPT ![n] = <<n, m, data_[n]>>]
                    /\ rpc' = [rpc EXCEPT ![n][m] = "payload"]
    /\ UNCHANGED <<remote_owner_, counter_, data_, pc>>
    /\ HandlerFrame

\* ... and from its second send on: the copy of the value is sent, the send
\* channel and policy_data_.mutex_ are unlocked.
WireSendValue(n, m) ==
    /\ n \in Nodes /\ m \in Nodes /\ n # m
    /\ rpc[n][m] = "payload"
    /\ Room(n, {m})
    /\ chan' = send_to(chan, n, Payload(v_mutex[n][3]), m)
    /\ v_mutex' = [v_mutex EXCEPT ![n] = Unlocked]
    /\ rpc' = [rpc EXCEPT ![n][m] = "recv"]
    /\ UNCHANGED <<state_, remote_owner_, counter_, data_, pc>>
    /\ HandlerFrame

\* case MSG_INVALIDATE_COPY, the send_to of the acknowledgement: it locks the
\* send channel first.
WireSendInvalidateCopyAck(n, m) ==
    /\ n \in Nodes /\ m \in Nodes /\ n # m
    /\ lock_send_channel(n, m)
    /\ SendInvalidateCopyAck(n, m)

\* case MSG_SET_NEW_VALUE: the header has been received.
WireReceiveHeader(n, m) ==
    /\ Received(n, m, MSG_SET_NEW_VALUE)
    /\ chan' = Taken(n, m)
    /\ rpc' = [rpc EXCEPT ![n][m] = "recv_payload"]
    /\ UNCHANGED <<state_, remote_owner_, counter_, data_, v_mutex, pc>>
    /\ HandlerFrame

\* ... and recv_from reads var_size bytes, whatever was sent next on the
\* connection; set_value and after_remote_write if `a` is registered.
WireReceiveValue(n, m) ==
    /\ n \in Nodes /\ m \in Nodes /\ n # m
    /\ rpc[n][m] = "recv_payload"
    /\ chan[m][n] # << >>
    /\ IF ~dictionary_[n]
       THEN UNCHANGED <<data_, pc>>
       ELSE /\ MutexFree(n)
            /\ \E d \in IF Head(chan[m][n]).type = ValueBytes
                        THEN {Head(chan[m][n]).bytes} ELSE Values :
                  data_' = [data_ EXCEPT ![n] = d]
            /\ pc' = notify_all(pc, n, "wait_value", "woken_value")
    /\ chan' = Taken(n, m)
    /\ rpc' = [rpc EXCEPT ![n][m] = "recv"]
    /\ UNCHANGED <<state_, remote_owner_, counter_, v_mutex>>
    /\ HandlerFrame

\* The steps of the receiver thread of node n for remote node m.
WireReceiverThread(n, m) ==
    \/ HandleRequestOwnership(n, m)
    \/ HandleGrantOwnership(n, m)
    \/ HandleSetNewOwner(n, m)
    \/ WireHandleAskCurrentValue(n, m)
    \/ WireSendValue(n, m)
    \/ WireReceiveHeader(n, m)
    \/ WireReceiveValue(n, m)
    \/ HandleInvalidateCopy(n, m)
    \/ WireSendInvalidateCopyAck(n, m)
    \/ HandleInvalidateCopyAck(n, m)

\* Two nodes after start-up.
WireInit ==
    /\ Started(2)
    /\ tpc = [n \in 0 .. 1 |-> "free"]

NextWire ==
    \/ CoherenceApp
    \/ CoherenceWake
    \/ \E n \in NodeIds : WireDestroyHeader(n) \/ WireDestroyPayload(n)
    \/ \E n \in NodeIds : \E m \in NodeIds : WireReceiverThread(n, m)

\* An application on two nodes that calls the operators of `a` freely until `a`
\* is destroyed, every send being a step.
WireSpec == WireInit /\ [][NextWire]_vars

\* The types of the elements of the connection from node i to node j.
Wire(i, j) == [k \in 1 .. Len(chan[i][j]) |-> chan[i][j][k].type]

\* C26: on every connection a MSG_SET_NEW_VALUE header is directly followed by
\* its value (or is the last element while its sender is still between its two
\* sends), a value directly follows a header (or is the first element while the
\* receiver has taken the header, or had taken it when its process ended), and
\* a receiver thread that has taken a header finds the value next.
C26_HeaderThenValue ==
    \A i \in Nodes : \A j \in Nodes \ {i} :
        /\ \A k \in 1 .. Len(chan[i][j]) :
              /\ Wire(i, j)[k] = MSG_SET_NEW_VALUE =>
                    IF k < Len(chan[i][j])
                    THEN Wire(i, j)[k + 1] = ValueBytes
                    ELSE pc[i] = "d_payload" \/ rpc[i][j] = "payload"
              /\ Wire(i, j)[k] = ValueBytes =>
                    IF k > 1
                    THEN Wire(i, j)[k - 1] = MSG_SET_NEW_VALUE
                    ELSE rpc[j][i] = "recv_payload" \/ tpc[j] = "crashed"
        /\ (rpc[j][i] = "recv_payload" /\ chan[i][j] # << >>) =>
              Wire(i, j)[1] = ValueBytes

\* A receiver thread of node i has an acknowledgement to send to node j while
\* the application thread of node i is between the two sends of a
\* MSG_SET_NEW_VALUE to node j.
C26_Witness ==
    \E i \in Nodes : \E j \in Nodes \ {i} :
        /\ rpc[i][j] = "ack"
        /\ pc[i] = "d_payload"
        /\ chan[i][j] # << >>
        /\ Wire(i, j)[Len(chan[i][j])] = MSG_SET_NEW_VALUE

\* C27: a receiver thread that is inside a handler (it is not at recv_from)
\* finishes the handler and is at recv_from again.
C27_HandlersFinish ==
    \A n \in SeqNodes : \A m \in SeqNodes :
        (rpc[n][m] # "recv") ~> (rpc[n][m] = "recv")

\* Some connection has one more MSG_BARRIER_UNBLOCK for barrier s after the step.
UnblockSent(s) ==
    \E i \in Nodes : \E j \in Nodes :
        /\ Len(chan'[i][j]) > Len(chan[i][j])
        /\ chan'[i][j][Len(chan'[i][j])] = msg_t(MSG_BARRIER_UNBLOCK, s, Uninit, Uninit)

\* C28: a MSG_BARRIER_UNBLOCK for barrier s is sent only by the application
\* thread of the master inside thread_wait_master_barrier, never by a receiver
\* thread, one to each slave, and only when the counter of s has reached zero
\* (by the master's own decrement, or before the master was woken).
C28_UnblockOnlyAtZero ==
    [][\A s \in AllBarrierIds :
          UnblockSent(s) =>
              LET elem == master_waiting_barrier_grants_[0][s] IN
              /\ pc[0] \in {"idle", "mb_woken"}
              /\ pc'[0] = "b_ret"
              /\ rpc' = rpc
              /\ chan' = send_to_all(chan, 0, msg_t(MSG_BARRIER_UNBLOCK, s, Uninit, Uninit))
              /\ elem # NullElem
              /\ IF elem = NullElem THEN FALSE
                 ELSE elem[1] = (IF pc[0] = "idle" THEN 1 ELSE 0)]_vars

\* Following remote_owner_ from node n, at most `hops` times, ends at a node
\* that has `a` in an owner state.
RECURSIVE ReachesOwner(_, _)
ReachesOwner(n, hops) ==
    IF state_[n] \in OwnerStates THEN TRUE
    ELSE IF hops = 0 \/ state_[n] \notin RemoteStates \/ remote_owner_[n] \notin Nodes
    THEN FALSE
    ELSE ReachesOwner(remote_owner_[n], hops - 1)

\* C29: when no transfer of ownership is under way, following remote_owner_
\* from any node that has `a` in a remote state reaches, in fewer hops than
\* there are nodes, a node that has `a` in an owner state.
C29_RemoteOwnerChainEndsAtOwner ==
    NoTransferInFlight =>
        \A n \in Nodes :
            state_[n] \in RemoteStates => ReachesOwner(n, number_of_nodes_ - 1)

\* C30: destroying `a` on node n, which needs policy_data_.mutex_, puts one
\* MSG_SET_NEW_VALUE with the value of node n on the connection to every other
\* node and removes `a` from dictionary_; from then on node n has no record of
\* `a`, whatever message arrives.
C30_DestructionBroadcastsAndUnregisters ==
    [][\A n \in Nodes :
          /\ DestroyVariable(n) =>
                /\ v_mutex[n] = Unlocked
                /\ chan' = [chan EXCEPT ![n] =
                               [j \in Nodes |->
                                   IF j = n THEN chan[n][j]
                                   ELSE Append(chan[n][j],
                                               msg_t(MSG_SET_NEW_VALUE, VarA, Uninit, data_[n]))]]
                /\ ~dictionary_'[n]
          /\ tpc[n] = "destroyed" =>
                /\ ~dictionary_[n] /\ ~dictionary_'[n]
                /\ state_'[n] = state_[n] /\ data_'[n] = data_[n]
                /\ remote_owner_'[n] = remote_owner_[n] /\ counter_'[n] = counter_[n]
                /\ pc'[n] = pc[n]]_vars

\* `a` was destroyed on two nodes, the process went on on both, and each has
\* received the value the other sent: the second to destroy sent its value to a
\* node that had no record of `a` any more.
C30_Witness ==
    \E n \in Nodes : \E m \in Nodes \ {n} :
        /\ tpc[n] = "destroyed" /\ tpc[m] = "destroyed"
        /\ chan[n][m] = << >> /\ chan[m][n] = << >>
        /\ rpc[n][m] = "recv" /\ rpc[m][n] = "recv"

\* ------------------------------------------- the accesses of dictionary_
\* dictionary_ is a std::map.  dictionary_[id] on an id that has no entry
\* inserts one (a null pointer); `dictionary_[id] = v` of at_variable_creation
\* inserts the entry or assigns to it.  Here an access that modifies the map is
\* a position of its thread: pc[n] is "dict_insert" while the application thread
\* runs line 189 of policy.hpp, rpc[n][m] is "dict_lookup" while the receiver
\* thread runs the dictionary_[msg.id] of its handler on an id without entry.

\* dictionary_ of the node has no entry for `a` (state_ holds it, as it holds
\* NoVarData for an entry that is a null pointer).
NoEntry == "no entry"

\* at_variable_creation up to `dictionary_[data->get_id()] = v`: the var_data
\* is allocated and filled; no mutex is taken.
RegistryCreateBegin(n) ==
    /\ n \in Nodes
    /\ tpc[n] \in {"main", "inited"}
    /\ pc[n] = "idle"
    /\ pc' = [pc EXCEPT ![n] = "dict_insert"]
    /\ UNCHANGED <<number_of_nodes_, dictionary_, state_, remote_owner_, counter_, data_,
                   v_mutex, chan, rpc, ideal>>
    /\ UNCHANGED bar_vars
    /\ UNCHANGED test_vars

\* `dictionary_[data->get_id()] = v` has completed.
RegistryCreateEnd(n) ==
    /\ n \in Nodes
    /\ pc[n] = "dict_insert"
    /\ dictionary_' = [dictionary_ EXCEPT ![n] = TRUE]
    /\ state_' = [state_ EXCEPT ![n] = at_variable_creation(pbsm_tid(n)).state]
    /\ remote_owner_' = [remote_owner_ EXCEPT ![n] = at_variable_creation(pbsm_tid(n)).remote_owner]
    /\ data_' = [data_ EXCEPT ![n] = 0]
    /\ tpc' = [tpc EXCEPT ![n] = IF @ = "main" THEN "main_decl" ELSE "free"]
    /\ pc' = [pc EXCEPT ![n] = "idle"]
    /\ UNCHANGED <<number_of_nodes_, counter_, v_mutex, chan, rpc, ideal, rd, incs>>
    /\ UNCHANGED bar_vars

\* `var_data* v = dictionary_[msg.id]` of a handler on an id that has no entry:
\* std::map::operator[] starts to insert one; no mutex is taken.
RegistryLookupBegin(n, m) ==
    /\ n \in Nodes /\ m \in Nodes /\ n # m
    /\ rpc[n][m] = "recv"
    /\ chan[m][n] # << >>
    /\ state_[n] = NoEntry
    /\ rpc' = [rpc EXCEPT ![n][m] = "dict_lookup"]
    /\ UNCHANGED <<number_of_nodes_, dictionary_, state_, remote_owner_, counter_, data_,
                   v_mutex, chan, pc, ideal>>
    /\ UNCHANGED bar_vars
    /\ UNCHANGED test_vars

\* The insertion of operator[] has completed: the entry is a null pointer unless
\* at_variable_creation has stored its var_data meanwhile.  The handler goes on
\* with the pointer it reads.
RegistryLookupEnd(n, m) ==
    /\ n \in Nodes /\ m \in Nodes /\ n # m
    /\ rpc[n][m] = "dict_lookup"
    /\ state_' = [state_ EXCEPT ![n] = IF @ = NoEntry THEN NoVarData ELSE @]
    /\ rpc' = [rpc EXCEPT ![n][m] = "recv"]
    /\ UNCHANGED <<number_of_nodes_, dictionary_, remote_owner_, counter_, data_,
                   v_mutex, chan, pc, ideal>>
    /\ UNCHANGED bar_vars
    /\ UNCHANGED test_vars

\* A handler of a coherence message once dictionary_ has an entry for msg.id.
RegistryReceiver(n, m) ==
    /\ n \in Nodes
    /\ state_[n] # NoEntry
    /\ CoherenceReceiver(n, m)

\* Two processes at the top of main(): `a` is declared on neither, dictionary_
\* is empty and no receiver thread runs.
RegistryInit ==
    /\ number_of_nodes_ = 2
    /\ dictionary_ = [n \in 0 .. 1 |-> FALSE]
    /\ state_ = [n \in 0 .. 1 |-> NoEntry]
    /\ remote_owner_ = [n \in 0 .. 1 |-> Uninit]
    /\ counter_ = [n \in 0 .. 1 |-> Uninit]
    /\ data_ = [n \in 0 .. 1 |-> 0]
    /\ v_mutex = [n \in 0 .. 1 |-> Unlocked]
    /\ chan = [i \in 0 .. 1 |-> [j \in 0 .. 1 |-> << >>]]
    /\ pc = [n \in 0 .. 1 |-> "idle"]
    /\ bar = [n \in 0 .. 1 |-> Null]
    /\ rpc = [n \in 0 .. 1 |-> [m \in 0 .. 1 |-> "off"]]
    /\ master_waiting_barrier_grants_ = [n \in 0 .. 1 |-> [s \in AllBarrierIds |-> NullElem]]
    /\ ideal = 0
    /\ benter = [n \in 0 .. 1 |-> [s \in AllBarrierIds |-> 0]]
    /\ bret = [n \in 0 .. 1 |-> [s \in AllBarrierIds |-> 0]]
    /\ rd = [n \in 0 .. 1 |-> 0]
    /\ incs = 0
    /\ tpc = [n \in 0 .. 1 |-> "main"]

NextRegistry ==
    \/ \E n \in NodeIds : RegistryCreateBegin(n) \/ RegistryCreateEnd(n) \/ pbsm_init(n)
    \/ \E n \in NodeIds : \E m \in NodeIds :
          RegistryLookupBegin(n, m) \/ RegistryLookupEnd(n, m) \/ RegistryReceiver(n, m)
    \/ CoherenceApp
    \/ CoherenceWake

\* Start-up and a free application, with the accesses that modify dictionary_
\* as steps of their own.
RegistrySpec == RegistryInit /\ [][NextRegistry]_vars

\* The number of threads of node n that are inside an access that modifies
\* dictionary_.
DictionaryWriters(n) ==
    (IF pc[n] = "dict_insert" THEN 1 ELSE 0)
        + Cardinality({m \in Nodes : rpc[n][m] = "dict_lookup"})

\* C31: every insertion into dictionary_ (at_variable_creation, the entry a
\* lookup of an unknown id creates in a handler) is made under a mutex of the
\* registry, so that on no node two threads are inside an access that modifies
\* dictionary_ at the same time.
C31_RegistryModifiedUnderMutex ==
    \A n \in Nodes : DictionaryWriters(n) <= 1

\* C32: in every reachable state, ownership transfers and invalidation rounds
\* in progress included, at most one node has `a` in an owner state; a node
\* that granted ownership while it waited in before_local_write for the
\* acknowledgements of its MSG_INVALIDATE_COPY is no owner next to the node it
\* granted to.
C32_AtMostOneOwnerAlways == Cardinality(Owners) <= 1

\* ------------------- scenario: every node of three assigns `a` once
\* tpc is "once" before the call and "written" after the assignment.

\* shared<int>::operator=(T) calls Policy::before_local_write.
OnceWriteCall(n) ==
    /\ n \in Nodes
    /\ tpc[n] = "once"
    /\ pc[n] = "idle"
    /\ before_local_write(n)
    /\ AppFrame
    /\ UNCHANGED <<data_, ideal>>
    /\ UNCHANGED test_vars

\* shared<int>::operator=(T): data_ = other with the node's number as value,
\* after the hook has returned.
OnceAssign(n) ==
    /\ n \in Nodes
    /\ tpc[n] = "once"
    /\ pc[n] = "w_ret"
    /\ data_' = [data_ EXCEPT ![n] = n]
    /\ ideal' = n
    /\ tpc' = [tpc EXCEPT ![n] = "written"]
    /\ pc' = [pc EXCEPT ![n] = "idle"]
    /\ AppFrame
    /\ UNCHANGED <<state_, remote_owner_, counter_, chan, rd, incs>>

\* case MSG_SET_NEW_OWNER where the second lock of policy_data_.mutex_ blocks
\* (a std::mutex over a default pthread mutex): of the two outcomes of
\* HandleSetNewOwner, the one that leaves state_ alone.
HandleSetNewOwnerBlocks(n, m) ==
    /\ HandleSetNewOwner(n, m)
    /\ rpc'[n][m] = "hung"

OnceInit ==
    /\ Started(3)
    /\ tpc = [n \in 0 .. 2 |-> "once"]

\* The steps of the receiver thread of node n for remote node m.
OnceReceiverThread(n, m) ==
    \/ HandleRequestOwnership(n, m)
    \/ HandleGrantOwnership(n, m)
    \/ HandleSetNewOwnerBlocks(n, m)
    \/ HandleInvalidateCopy(n, m)
    \/ SendInvalidateCopyAck(n, m)
    \/ HandleInvalidateCopyAck(n, m)

NextOnce ==
    \/ \E n \in NodeIds : OnceWriteCall(n) \/ WriteWake(n) \/ OnceAssign(n)
    \/ \E n \in NodeIds : \E m \in NodeIds : OnceReceiverThread(n, m)

\* Three nodes, each assigns `a` once; a MSG_SET_NEW_OWNER blocks its handler.
OnceSpec == OnceInit /\ [][NextOnce]_vars

\* C33: a node leaves the owner states only by handling a MSG_REQUEST_OWNERSHIP
\* and sending MSG_GRANT_OWNERSHIP to the requester; no other message that
\* arrives at a node that owns `a` moves it to a remote state.
C33_OwnerLeavesOnlyByGrant ==
    [][\A n \in Nodes :
          (state_[n] \in OwnerStates /\ state_'[n] \in RemoteStates) =>
              \E m \in Nodes :
                  /\ HandleRequestOwnership(n, m)
                  /\ LET msg == Head(chan[m][n]) IN
                     chan'[n][msg.node] =
                         Append(chan[n][msg.node], msg_t(MSG_GRANT_OWNERSHIP, msg.id, n, Uninit))]_vars

\* C34: the value of `a` on a node that has it in an owner state changes only
\* by a local write of that node (the assignment or increment that follows
\* before_local_write); a MSG_SET_NEW_VALUE that arrives at an owner, such as
\* the one a peer sends when it destroys its copy, does not overwrite it.
C34_OwnerValueChangesOnlyByLocalWrite ==
    [][\A n \in Nodes :
          (dictionary_[n] /\ state_[n] \in OwnerStates /\ data_'[n] # data_[n]) =>
              (pc[n] = "w_ret" /\ pc'[n] = "idle")]_vars

\* ------------------------------- the hooks, from the send to the wait
\* The application thread holds policy_data_.mutex_ from the start of a hook
\* until wait(lock) releases it.  Here the send of the request and the start of
\* the wait are two steps: pc[n] is "sent_ask", "sent_request" or
\* "sent_invalidate" in between, and v_mutex[n] is <<n, n>> (held by the
\* application thread).

\* The positions between the send of a hook and its wait.
SentPositions == {"sent_ask", "sent_request", "sent_invalidate"}

\* Policy::before_local_read up to its return or to the return of
\* requestCurrentValue.
before_local_read_send(n) ==
    /\ UNCHANGED <<state_, remote_owner_, counter_>>
    /\ IF ~dictionary_[n]
       THEN /\ pc' = [pc EXCEPT ![n] = "r_ret"]
            /\ UNCHANGED <<chan, v_mutex>>
       ELSE /\ MutexFree(n)
            /\ IF state_[n] = REMOTE_OWNER_NO_CACHED
               THEN \E owner \in RemoteOwnerRead(n) :
                      /\ Room(n, {owner})
                      /\ chan' = requestCurrentValue(chan, n, owner)
                      /\ v_mutex' = [v_mutex EXCEPT ![n] = <<n, n>>]
                      /\ pc' = [pc EXCEPT ![n] = "sent_ask"]
               ELSE /\ pc' = [pc EXCEPT ![n] = "r_ret"]
                    /\ UNCHANGED <<chan, v_mutex>>

\* Policy::before_local_write up to its return or to the return of
\* send_request_ownership or send_to_all.
before_local_write_send(n) ==
    /\ UNCHANGED <<state_, remote_owner_, counter_>>
    /\ IF ~dictionary_[n]
       THEN /\ pc' = [pc EXCEPT ![n] = "w_ret"]
            /\ UNCHANGED <<chan, v_mutex>>
       ELSE /\ MutexFree(n)
            /\ IF state_[n] \in RemoteStates
               THEN /\ Room(n, Nodes)
                    /\ chan' = send_request_ownership(chan, n)
                    /\ v_mutex' = [v_mutex EXCEPT ![n] = <<n, n>>]
                    /\ pc' = [pc EXCEPT ![n] = "sent_request"]
               ELSE IF state_[n] = OWNER_SHARED
               THEN /\ Room(n, Nodes)
                    /\ chan' = send_to_all(chan, n, msg_t(MSG_INVALIDATE_COPY, VarA, n, Uninit))
                    /\ v_mutex' = [v_mutex EXCEPT ![n] = <<n, n>>]
                    /\ pc' = [pc EXCEPT ![n] = "sent_invalidate"]
               ELSE /\ pc' = [pc EXCEPT ![n] = "w_ret"]
                    /\ UNCHANGED <<chan, v_mutex>>

\* A read operator of shared<int> calls Policy::before_local_read.
HookReadCall(n) ==
    /\ n \in Nodes
    /\ pc[n] = "idle"
    /\ tpc[n] = "free"
    /\ before_local_read_send(n)
    /\ UNCHANGED <<number_of_nodes_, dictionary_, rpc, data_, ideal>>
    /\ UNCHANGED bar_vars
    /\ UNCHANGED test_vars

\* shared<int>::operator=(T) and operator++ call Policy::before_local_write.
HookWriteCall(n) ==
    /\ n \in Nodes
    /\ pc[n] = "idle"
    /\ tpc[n] = "free"
    /\ before_local_write_send(n)
    /\ UNCHANGED <<number_of_nodes_, dictionary_, rpc, data_, ideal>>
    /\ UNCHANGED bar_vars
    /\ UNCHANGED test_vars

\* The hook goes on to its wait: before_local_write sets the counter after
\* send_to_all, and wait(lock) releases policy_data_.mutex_.
HookWait(n) ==
    /\ n \in Nodes
    /\ pc[n] \in SentPositions
    /\ v_mutex[n] = <<n, n>>
    /\ counter_' = [counter_ EXCEPT ![n] =
                       IF pc[n] = "sent_invalidate" THEN number_of_nodes_ - 1 ELSE @]
    /\ pc' = [pc EXCEPT ![n] = IF @ = "sent_ask" THEN "wait_value"
                               ELSE IF @ = "sent_request" THEN "wait_grant"
                               ELSE "wait_inval"]
    /\ v_mutex' = [v_mutex EXCEPT ![n] = Unlocked]
    /\ UNCHANGED <<number_of_nodes_, dictionary_, state_, remote_owner_, data_,
                   chan, rpc, ideal>>
    /\ UNCHANGED bar_vars
    /\ UNCHANGED test_vars

\* The steps of the application thread of node n.
HookMain(n) ==
    \/ HookReadCall(n)
    \/ HookWriteCall(n)
    \/ HookWait(n)
    \/ ReadWake(n)
    \/ WriteWake(n)
    \/ ReadReturn(n)
    \/ \E other \in Values : Assign(n, other)
    \/ Increment(n)

HookInit ==
    /\ Started(2)
    /\ tpc = [n \in 0 .. 1 |-> "free"]

NextHook ==
    \/ \E n \in NodeIds : HookMain(n)
    \/ CoherenceReceive

\* A free application on two nodes; waits return only once notified.
HookSpec == HookInit /\ [][NextHook]_vars

\* C35: no wake-up of the waits of a variable is lost: a hook sends its request
\* and starts to wait with policy_data_.mutex_ held and the handlers take the
\* same mutex before they notify, so no MSG_GRANT_OWNERSHIP, no
\* MSG_SET_NEW_VALUE and no MSG_INVALIDATE_COPY_ACK is handled on a node whose
\* application thread has sent its request and does not wait yet.
C35_NoWakeupLost ==
    [][\A n \in Nodes : \A m \in Nodes :
          pc[n] \in SentPositions =>
              ~(\/ HandleGrantOwnership(n, m)
                \/ HandleSetNewValue(n, m)
                \/ HandleInvalidateCopyAck(n, m))]_vars

\* Node n has sent MSG_REQUEST_OWNERSHIP and does not wait yet; the
\* MSG_GRANT_OWNERSHIP that answers it has arrived and its receiver thread is
\* ready to handle it.
C35_Witness ==
    \E n \in Nodes : \E m \in Nodes \ {n} :
        /\ dictionary_[n]
        /\ pc[n] = "sent_request"
        /\ v_mutex[n] = <<n, n>>
        /\ rpc[n][m] = "recv"
        /\ chan[m][n] # << >>
        /\ Head(chan[m][n]).type = MSG_GRANT_OWNERSHIP

\* C36: whenever `a` is in a remote state on node n, remote_owner_ of n is a
\* node id of 0..N-1 other than n, so that n sends no MSG_ASK_CURRENT_VALUE and
\* no other coherence message to itself.
C36_RemoteOwnerIsAnotherNode ==
    \A n \in Nodes :
        (dictionary_[n] /\ state_[n] \in RemoteStates) => remote_owner_[n] \in Nodes \ {n}

\* --------- scenario: two rounds of invalidation with spurious wake-ups
\* Two nodes.  The master assigns `a` twice (tpc "two writes", "one write",
\* "done"), node 1 reads `a` once (tpc "one read", "done"); wait(lock) may
\* return without a notify_all.

\* shared<int>::operator=(T) on the master calls Policy::before_local_write.
RoundsWriteCall(n) ==
    /\ n \in Nodes
    /\ tpc[n] \in {"two writes", "one write"}
    /\ pc[n] = "idle"
    /\ before_local_write(n)
    /\ AppFrame
    /\ UNCHANGED <<data_, ideal>>
    /\ UNCHANGED test_vars

\* shared<int>::operator=(T): data_ = other, after the hook has returned.
RoundsAssign(n) ==
    /\ n \in Nodes
    /\ tpc[n] \in {"two writes", "one write"}
    /\ pc[n] = "w_ret"
    /\ data_' = [data_ EXCEPT ![n] = 1]
    /\ ideal' = 1
    /\ tpc' = [tpc EXCEPT ![n] = IF @ = "two writes" THEN "one write" ELSE "done"]
    /\ pc' = [pc EXCEPT ![n] = "idle"]
    /\ AppFrame
    /\ UNCHANGED <<state_, remote_owner_, counter_, chan, rd, incs>>

\* shared<int>::operator T on node 1 calls Policy::before_local_read.
RoundsReadCall(n) ==
    /\ n \in Nodes
    /\ tpc[n] = "one read"
    /\ pc[n] = "idle"
    /\ before_local_read(n)
    /\ AppFrame
    /\ UNCHANGED <<data_, ideal>>
    /\ UNCHANGED test_vars

\* shared<int>::operator T: return data_, after the hook has returned.
RoundsReadReturn(n) ==
    /\ n \in Nodes
    /\ tpc[n] = "one read"
    /\ pc[n] = "r_ret"
    /\ rd' = [rd EXCEPT ![n] = data_[n]]
    /\ tpc' = [tpc EXCEPT ![n] = "done"]
    /\ pc' = [pc EXCEPT ![n] = "idle"]
    /\ AppFrame
    /\ UNCHANGED <<state_, remote_owner_, counter_, data_, chan, ideal, incs>>

RoundsInit ==
    /\ Started(2)
    /\ tpc = [n \in 0 .. 1 |-> IF n = 0 THEN "two writes" ELSE "one read"]

\* The steps of the receiver threads in the scenario: the master stays the
\* owner, so no message of an ownership transfer is ever sent.
RoundsReceive ==
    \E n \in NodeIds : \E m \in NodeIds :
        \/ HandleAskCurrentValue(n, m)
        \/ HandleSetNewValue(n, m)
        \/ HandleInvalidateCopy(n, m)
        \/ SendInvalidateCopyAck(n, m)
        \/ HandleInvalidateCopyAck(n, m)

NextRounds ==
    \/ \E n \in NodeIds :
          RoundsWriteCall(n) \/ RoundsAssign(n) \/ RoundsReadCall(n) \/ RoundsReadReturn(n)
    \/ CoherenceWake
    \/ RoundsReceive

\* The scenario with waits that return only once notified.
RoundsSpec == RoundsInit /\ [][NextRounds]_vars

NextSpuriousRounds ==
    \/ NextRounds
    \/ \E n \in NodeIds : SpuriousWakeup(n)

\* The scenario on a platform whose condition variables wake spuriously.
SpuriousRoundsSpec == RoundsInit /\ [][NextSpuriousRounds]_vars

\* C37: once before_local_write has set it, the counter of acknowledgements
\* stays within 0..N-1; no MSG_INVALIDATE_COPY_ACK is handled while the counter
\* is 0 (or was never set), so the unsigned counter never wraps, and the counter
\* comes to 0 only by the decrement from 1, once per round of invalidation.
C37_InvalidateCounterInRange ==
    [][\A n \in Nodes :
          /\ (counter_[n] # Uninit /\ dictionary_'[n]) =>
                counter_'[n] \in 0 .. (number_of_nodes_ - 1)
          /\ \A m \in Nodes :
                (HandleInvalidateCopyAck(n, m) /\ dictionary_[n]) =>
                    /\ counter_[n] \in 1 .. (number_of_nodes_ - 1)
                    /\ counter_'[n] = counter_[n] - 1
          /\ (counter_'[n] = 0 /\ counter_[n] # 0) => counter_[n] = 1]_vars

\* main() of apps/test-barrier.cpp on a platform whose condition variables wake
\* spuriously.
NextSpuriousLoop ==
    \/ NextLoop
    \/ \E n \in NodeIds : SpuriousBarrierWakeup(n)

SpuriousLoopSpec == LoopInit /\ [][NextSpuriousLoop]_vars

\* C38: on the master the counter of a barrier entry is within 0..N-1 after
\* every decrement; an entry whose counter is 0 is not decremented again: the
\* only change it sees is its removal by the master's own entry into the
\* barrier, before a further MSG_BARRIER_BLOCK or entry for that id is counted.
C38_BarrierCounterInRange ==
    [][\A s \in AllBarrierIds :
          LET elem == master_waiting_barrier_grants_[0][s]
              after == master_waiting_barrier_grants_'[0][s]
          IN  /\ (after # NullElem /\ after # elem) =>
                    after[1] \in 0 .. (number_of_nodes_ - 1)
              /\ (elem # NullElem /\ after # elem) =>
                    IF elem[1] = 0
                    THEN after = NullElem /\ pc[0] = "mb_woken" /\ pc'[0] = "b_ret"
                    ELSE TRUE]_vars

====
